---- MODULE Spec2Model ----
(***************************************************************************)
(* Model of the RTF colour parser (src/src/parser/rtf_color_parser.py).   *)
(*                                                                         *)
(* Text is a sequence of one-character strings; offsets are 0-based as in  *)
(* Python.  A printable ASCII character is written as itself, and so are   *)
(* \t, \n, \f and \r.  The characters \x00..\x04 are written NUL, SOH,     *)
(* STX, ETX, EOT.  Any other character is written U+ followed by its code  *)
(* point in at least four upper-case hexadecimal digits: "U+0663" is the   *)
(* one-character string '\u0663'.                                          *)
(*                                                                         *)
(* A Python int up to 2147483647 is the integer itself; a larger one is   *)
(* the sequence of its decimal digits, <<"2", "1", ...>>, so that no value *)
(* is cut to the width of the checker's integers.  A function that raises  *)
(* where it would return a value returns the name of the exception.        *)
(***************************************************************************)
EXTENDS Integers, Sequences, FiniteSets, TLC

VARIABLES
    rtf_content,     \* output_txt_script argument: the raw RTF text
    rtf_color_dict,  \* output_txt_script argument: slot k |-> RGB string (1..N)
    tagmap,          \* output_txt_script argument: ordered dict, entries (key, value)
    collect_output,  \* output_txt_script argument
    pc,              \* position in output_txt_script
    tags_info,       \* local: one entry per raw colour tag, with 'name'
    clean_txt,       \* local: rtf_to_text(protected_rtf)
    idx,             \* local: scan cursor into clean_txt
    cur_name,        \* local: label of the text being collected
    i,               \* local: enumerate() index of the scan loop
    jsonl_objs,      \* local: collected jsonl objects
    stdout,          \* what print() has written
    ret,             \* return value of output_txt_script
    error,           \* the exception that left output_txt_script, if any
    fn_pc,           \* position of the pure-function harness
    fn_in,           \* input of the pure function under test
    fn_out,          \* its result
    ctor_pc,         \* position in RTFParser.__init__
    fname,           \* __init__ argument: the file, [readable, decodes, content]
    opened,          \* whether __init__ has opened the file
    self,            \* instance attributes: success, color_tag_marker_char, jsonl_objs
    ctor_error,      \* how __init__ ended: an exception that left it, or a message it printed
    agg_pc,          \* position in DiscussionConverter.__init__
    rtf_dir,         \* the files of rtf_dir: name |-> file
    jsonl_dir_is_tmp, \* whether jsonl_dir was omitted
    jsonl_dir,       \* the name of the directory of the .jsonl files
    files,           \* the .jsonl files on disk: path |-> lines
    pending,         \* rtf_path_iter: the paths not yet converted
    cur_rtf,         \* rtf_path of the conversion under way
    listed,          \* jsonl_path_iter: the names not yet read
    discussion,      \* self.discussion
    agg_error        \* the exception that left DiscussionConverter.__init__, if any

vars == <<rtf_content, rtf_color_dict, tagmap, collect_output, pc, tags_info,
          clean_txt, idx, cur_name, i, jsonl_objs, stdout, ret, error,
          fn_pc, fn_in, fn_out, ctor_pc, fname, opened, self, ctor_error,
          agg_pc, rtf_dir, jsonl_dir_is_tmp, jsonl_dir, files, pending, cur_rtf,
          listed, discussion, agg_error>>

script_vars == <<rtf_content, rtf_color_dict, tagmap, collect_output, pc, tags_info,
                 clean_txt, idx, cur_name, i, jsonl_objs, stdout, ret, error>>

fn_vars == <<fn_pc, fn_in, fn_out>>

ctor_vars == <<ctor_pc, fname, opened, self, ctor_error>>

agg_vars == <<agg_pc, rtf_dir, jsonl_dir_is_tmp, jsonl_dir, files, pending, cur_rtf,
              listed, discussion, agg_error>>

----------------------------------------------------------------------------
(* Bounds *)

\* Largest number of colour tags in a generated document body.
MaxMarkers == 2

----------------------------------------------------------------------------
(* Characters and Python string primitives *)

BS == "\\"
NUL == "NUL"

\* The character output_txt_script writes in place of the backslash of a
\* colour tag (line 236) and searches for in the cleaned text (line 253)
marker_char_used == NUL

\* The decimal digits of Unicode, one row per script, each row in the order
\* of the digits' values 0..9: row 1 is ASCII, row 2 Arabic-Indic, ...
\* These are the characters the regex class \d of a str pattern matches and
\* the characters int() reads as digits.
DigitRows == <<
    <<"0", "1", "2", "3", "4", "5", "6", "7", "8", "9">>,
    <<"U+0660", "U+0661", "U+0662", "U+0663", "U+0664", "U+0665", "U+0666", "U+0667", "U+0668", "U+0669">>,
    <<"U+06F0", "U+06F1", "U+06F2", "U+06F3", "U+06F4", "U+06F5", "U+06F6", "U+06F7", "U+06F8", "U+06F9">>,
    <<"U+07C0", "U+07C1", "U+07C2", "U+07C3", "U+07C4", "U+07C5", "U+07C6", "U+07C7", "U+07C8", "U+07C9">>,
    <<"U+0966", "U+0967", "U+0968", "U+0969", "U+096A", "U+096B", "U+096C", "U+096D", "U+096E", "U+096F">>,
    <<"U+09E6", "U+09E7", "U+09E8", "U+09E9", "U+09EA", "U+09EB", "U+09EC", "U+09ED", "U+09EE", "U+09EF">>,
    <<"U+0A66", "U+0A67", "U+0A68", "U+0A69", "U+0A6A", "U+0A6B", "U+0A6C", "U+0A6D", "U+0A6E", "U+0A6F">>,
    <<"U+0AE6", "U+0AE7", "U+0AE8", "U+0AE9", "U+0AEA", "U+0AEB", "U+0AEC", "U+0AED", "U+0AEE", "U+0AEF">>,
    <<"U+0B66", "U+0B67", "U+0B68", "U+0B69", "U+0B6A", "U+0B6B", "U+0B6C", "U+0B6D", "U+0B6E", "U+0B6F">>,
    <<"U+0BE6", "U+0BE7", "U+0BE8", "U+0BE9", "U+0BEA", "U+0BEB", "U+0BEC", "U+0BED", "U+0BEE", "U+0BEF">>,
    <<"U+0C66", "U+0C67", "U+0C68", "U+0C69", "U+0C6A", "U+0C6B", "U+0C6C", "U+0C6D", "U+0C6E", "U+0C6F">>,
    <<"U+0CE6", "U+0CE7", "U+0CE8", "U+0CE9", "U+0CEA", "U+0CEB", "U+0CEC", "U+0CED", "U+0CEE", "U+0CEF">>,
    <<"U+0D66", "U+0D67", "U+0D68", "U+0D69", "U+0D6A", "U+0D6B", "U+0D6C", "U+0D6D", "U+0D6E", "U+0D6F">>,
    <<"U+0DE6", "U+0DE7", "U+0DE8", "U+0DE9", "U+0DEA", "U+0DEB", "U+0DEC", "U+0DED", "U+0DEE", "U+0DEF">>,
    <<"U+0E50", "U+0E51", "U+0E52", "U+0E53", "U+0E54", "U+0E55", "U+0E56", "U+0E57", "U+0E58", "U+0E59">>,
    <<"U+0ED0", "U+0ED1", "U+0ED2", "U+0ED3", "U+0ED4", "U+0ED5", "U+0ED6", "U+0ED7", "U+0ED8", "U+0ED9">>,
    <<"U+0F20", "U+0F21", "U+0F22", "U+0F23", "U+0F24", "U+0F25", "U+0F26", "U+0F27", "U+0F28", "U+0F29">>,
    <<"U+1040", "U+1041", "U+1042", "U+1043", "U+1044", "U+1045", "U+1046", "U+1047", "U+1048", "U+1049">>,
    <<"U+1090", "U+1091", "U+1092", "U+1093", "U+1094", "U+1095", "U+1096", "U+1097", "U+1098", "U+1099">>,
    <<"U+17E0", "U+17E1", "U+17E2", "U+17E3", "U+17E4", "U+17E5", "U+17E6", "U+17E7", "U+17E8", "U+17E9">>,
    <<"U+1810", "U+1811", "U+1812", "U+1813", "U+1814", "U+1815", "U+1816", "U+1817", "U+1818", "U+1819">>,
    <<"U+1946", "U+1947", "U+1948", "U+1949", "U+194A", "U+194B", "U+194C", "U+194D", "U+194E", "U+194F">>,
    <<"U+19D0", "U+19D1", "U+19D2", "U+19D3", "U+19D4", "U+19D5", "U+19D6", "U+19D7", "U+19D8", "U+19D9">>,
    <<"U+1A80", "U+1A81", "U+1A82", "U+1A83", "U+1A84", "U+1A85", "U+1A86", "U+1A87", "U+1A88", "U+1A89">>,
    <<"U+1A90", "U+1A91", "U+1A92", "U+1A93", "U+1A94", "U+1A95", "U+1A96", "U+1A97", "U+1A98", "U+1A99">>,
    <<"U+1B50", "U+1B51", "U+1B52", "U+1B53", "U+1B54", "U+1B55", "U+1B56", "U+1B57", "U+1B58", "U+1B59">>,
    <<"U+1BB0", "U+1BB1", "U+1BB2", "U+1BB3", "U+1BB4", "U+1BB5", "U+1BB6", "U+1BB7", "U+1BB8", "U+1BB9">>,
    <<"U+1C40", "U+1C41", "U+1C42", "U+1C43", "U+1C44", "U+1C45", "U+1C46", "U+1C47", "U+1C48", "U+1C49">>,
    <<"U+1C50", "U+1C51", "U+1C52", "U+1C53", "U+1C54", "U+1C55", "U+1C56", "U+1C57", "U+1C58", "U+1C59">>,
    <<"U+A620", "U+A621", "U+A622", "U+A623", "U+A624", "U+A625", "U+A626", "U+A627", "U+A628", "U+A629">>,
    <<"U+A8D0", "U+A8D1", "U+A8D2", "U+A8D3", "U+A8D4", "U+A8D5", "U+A8D6", "U+A8D7", "U+A8D8", "U+A8D9">>,
    <<"U+A900", "U+A901", "U+A902", "U+A903", "U+A904", "U+A905", "U+A906", "U+A907", "U+A908", "U+A909">>,
    <<"U+A9D0", "U+A9D1", "U+A9D2", "U+A9D3", "U+A9D4", "U+A9D5", "U+A9D6", "U+A9D7", "U+A9D8", "U+A9D9">>,
    <<"U+A9F0", "U+A9F1", "U+A9F2", "U+A9F3", "U+A9F4", "U+A9F5", "U+A9F6", "U+A9F7", "U+A9F8", "U+A9F9">>,
    <<"U+AA50", "U+AA51", "U+AA52", "U+AA53", "U+AA54", "U+AA55", "U+AA56", "U+AA57", "U+AA58", "U+AA59">>,
    <<"U+ABF0", "U+ABF1", "U+ABF2", "U+ABF3", "U+ABF4", "U+ABF5", "U+ABF6", "U+ABF7", "U+ABF8", "U+ABF9">>,
    <<"U+FF10", "U+FF11", "U+FF12", "U+FF13", "U+FF14", "U+FF15", "U+FF16", "U+FF17", "U+FF18", "U+FF19">>,
    <<"U+104A0", "U+104A1", "U+104A2", "U+104A3", "U+104A4", "U+104A5", "U+104A6", "U+104A7", "U+104A8", "U+104A9">>,
    <<"U+10D30", "U+10D31", "U+10D32", "U+10D33", "U+10D34", "U+10D35", "U+10D36", "U+10D37", "U+10D38", "U+10D39">>,
    <<"U+11066", "U+11067", "U+11068", "U+11069", "U+1106A", "U+1106B", "U+1106C", "U+1106D", "U+1106E", "U+1106F">>,
    <<"U+110F0", "U+110F1", "U+110F2", "U+110F3", "U+110F4", "U+110F5", "U+110F6", "U+110F7", "U+110F8", "U+110F9">>,
    <<"U+11136", "U+11137", "U+11138", "U+11139", "U+1113A", "U+1113B", "U+1113C", "U+1113D", "U+1113E", "U+1113F">>,
    <<"U+111D0", "U+111D1", "U+111D2", "U+111D3", "U+111D4", "U+111D5", "U+111D6", "U+111D7", "U+111D8", "U+111D9">>,
    <<"U+112F0", "U+112F1", "U+112F2", "U+112F3", "U+112F4", "U+112F5", "U+112F6", "U+112F7", "U+112F8", "U+112F9">>,
    <<"U+11450", "U+11451", "U+11452", "U+11453", "U+11454", "U+11455", "U+11456", "U+11457", "U+11458", "U+11459">>,
    <<"U+114D0", "U+114D1", "U+114D2", "U+114D3", "U+114D4", "U+114D5", "U+114D6", "U+114D7", "U+114D8", "U+114D9">>,
    <<"U+11650", "U+11651", "U+11652", "U+11653", "U+11654", "U+11655", "U+11656", "U+11657", "U+11658", "U+11659">>,
    <<"U+116C0", "U+116C1", "U+116C2", "U+116C3", "U+116C4", "U+116C5", "U+116C6", "U+116C7", "U+116C8", "U+116C9">>,
    <<"U+11730", "U+11731", "U+11732", "U+11733", "U+11734", "U+11735", "U+11736", "U+11737", "U+11738", "U+11739">>,
    <<"U+118E0", "U+118E1", "U+118E2", "U+118E3", "U+118E4", "U+118E5", "U+118E6", "U+118E7", "U+118E8", "U+118E9">>,
    <<"U+11950", "U+11951", "U+11952", "U+11953", "U+11954", "U+11955", "U+11956", "U+11957", "U+11958", "U+11959">>,
    <<"U+11C50", "U+11C51", "U+11C52", "U+11C53", "U+11C54", "U+11C55", "U+11C56", "U+11C57", "U+11C58", "U+11C59">>,
    <<"U+11D50", "U+11D51", "U+11D52", "U+11D53", "U+11D54", "U+11D55", "U+11D56", "U+11D57", "U+11D58", "U+11D59">>,
    <<"U+11DA0", "U+11DA1", "U+11DA2", "U+11DA3", "U+11DA4", "U+11DA5", "U+11DA6", "U+11DA7", "U+11DA8", "U+11DA9">>,
    <<"U+16A60", "U+16A61", "U+16A62", "U+16A63", "U+16A64", "U+16A65", "U+16A66", "U+16A67", "U+16A68", "U+16A69">>,
    <<"U+16AC0", "U+16AC1", "U+16AC2", "U+16AC3", "U+16AC4", "U+16AC5", "U+16AC6", "U+16AC7", "U+16AC8", "U+16AC9">>,
    <<"U+16B50", "U+16B51", "U+16B52", "U+16B53", "U+16B54", "U+16B55", "U+16B56", "U+16B57", "U+16B58", "U+16B59">>,
    <<"U+1D7CE", "U+1D7CF", "U+1D7D0", "U+1D7D1", "U+1D7D2", "U+1D7D3", "U+1D7D4", "U+1D7D5", "U+1D7D6", "U+1D7D7">>,
    <<"U+1D7D8", "U+1D7D9", "U+1D7DA", "U+1D7DB", "U+1D7DC", "U+1D7DD", "U+1D7DE", "U+1D7DF", "U+1D7E0", "U+1D7E1">>,
    <<"U+1D7E2", "U+1D7E3", "U+1D7E4", "U+1D7E5", "U+1D7E6", "U+1D7E7", "U+1D7E8", "U+1D7E9", "U+1D7EA", "U+1D7EB">>,
    <<"U+1D7EC", "U+1D7ED", "U+1D7EE", "U+1D7EF", "U+1D7F0", "U+1D7F1", "U+1D7F2", "U+1D7F3", "U+1D7F4", "U+1D7F5">>,
    <<"U+1D7F6", "U+1D7F7", "U+1D7F8", "U+1D7F9", "U+1D7FA", "U+1D7FB", "U+1D7FC", "U+1D7FD", "U+1D7FE", "U+1D7FF">>,
    <<"U+1E140", "U+1E141", "U+1E142", "U+1E143", "U+1E144", "U+1E145", "U+1E146", "U+1E147", "U+1E148", "U+1E149">>,
    <<"U+1E2F0", "U+1E2F1", "U+1E2F2", "U+1E2F3", "U+1E2F4", "U+1E2F5", "U+1E2F6", "U+1E2F7", "U+1E2F8", "U+1E2F9">>,
    <<"U+1E950", "U+1E951", "U+1E952", "U+1E953", "U+1E954", "U+1E955", "U+1E956", "U+1E957", "U+1E958", "U+1E959">>,
    <<"U+1FBF0", "U+1FBF1", "U+1FBF2", "U+1FBF3", "U+1FBF4", "U+1FBF5", "U+1FBF6", "U+1FBF7", "U+1FBF8", "U+1FBF9">>>>

\* regex class \d (lines 236, 253, 501, 585, 690)
Digits == {DigitRows[r][k] : r \in 1..Len(DigitRows), k \in 1..10}

\* regex class [a-z] (discussion_converter.py line 191)
LowerLetters == {"a", "b", "c", "d", "e", "f", "g", "h", "i", "j", "k", "l", "m",
                 "n", "o", "p", "q", "r", "s", "t", "u", "v", "w", "x", "y", "z"}

\* regex class [A-Z] (discussion_converter.py line 191)
UpperLetters == {"A", "B", "C", "D", "E", "F", "G", "H", "I", "J", "K", "L", "M",
                 "N", "O", "P", "Q", "R", "S", "T", "U", "V", "W", "X", "Y", "Z"}

\* s[p]
At(s, p) == s[p + 1]

\* s[lo:hi]
Slice(s, lo, hi) == SubSeq(s, lo + 1, hi)

\* s[lo:]
SliceFrom(s, lo) == SubSeq(s, lo + 1, Len(s))

Min(S) == CHOOSE x \in S : \A y \in S : x <= y

\* The ASCII digit of value n
AsciiDigit(n) == DigitRows[1][n + 1]

\* The value int() gives a decimal digit of any script
DigitVal(c) ==
    IF \E k \in 1..10 : DigitRows[1][k] = c
    THEN (CHOOSE k \in 1..10 : DigitRows[1][k] = c) - 1
    ELSE (CHOOSE k \in 1..10 : \E r \in 1..Len(DigitRows) : DigitRows[r][k] = c) - 1

\* The element of a set of one element
Only(S) == CHOOSE v \in S : TRUE

\* The end of the longest stretch of s from offset p on whose characters all
\* are in cls (inside) or all are outside cls
RunEnd(s, p, cls, inside) ==
    CHOOSE q \in p..Len(s) :
        /\ q = Len(s) \/ (At(s, q) \in cls) /= inside
        /\ \A k \in p..(q - 1) : (At(s, k) \in cls) = inside

\* Length of the longest run of characters of class cls starting at offset p:
\* what a greedy regex quantifier over that class consumes.  (The text and
\* the offset are evaluated once.)
Run(s, p, cls) ==
    Only({IF q >= Len(t) THEN 0 ELSE RunEnd(t, q, cls, TRUE) - q : t \in {s}, q \in {p}})

\* Length of the longest run of characters outside cls starting at offset p
RunNot(s, p, cls) ==
    Only({IF q >= Len(t) THEN 0 ELSE RunEnd(t, q, cls, FALSE) - q : t \in {s}, q \in {p}})

\* sys.get_int_max_str_digits(): the longest string of digits int() converts
int_max_str_digits == 4300

\* int(ds) raises ValueError: ds is empty, or longer than the limit (leading
\* zeros count, and so do digits of any script)
int_raises(ds) == Len(ds) = 0 \/ Len(ds) > int_max_str_digits

\* ds without its leading zeros
StripZeros(ds) == SubSeq(ds, 1 + Run(ds, 0, {AsciiDigit(0)}), Len(ds))

\* The decimal digits of int(ds), most significant first; empty for zero
IntDigits(ds) == StripZeros([p \in 1..Len(ds) |-> AsciiDigit(DigitVal(ds[p]))])

\* The digits of 2147483647
IntCeiling == <<"2", "1", "4", "7", "4", "8", "3", "6", "4", "7">>

\* a <= b for two numbers written with the same number of digits
LeqDigits(a, b) ==
    \/ a = b
    \/ \E k \in 1..Len(a) :
          /\ \A j \in 1..(k - 1) : a[j] = b[j]
          /\ DigitVal(a[k]) < DigitVal(b[k])

\* int(ds) is at most 2147483647
IsSmall(ds) ==
    \E d \in {IntDigits(ds)} :
        \/ Len(d) < Len(IntCeiling)
        \/ Len(d) = Len(IntCeiling) /\ LeqDigits(d, IntCeiling)

RECURSIVE SmallInt(_)
SmallInt(ds) ==
    IF Len(ds) = 0 THEN 0
    ELSE 10 * SmallInt(SubSeq(ds, 1, Len(ds) - 1)) + DigitVal(ds[Len(ds)])

\* int(ds) for a string of decimal digits
int(ds) ==
    IF int_raises(ds) THEN "ValueError"
    ELSE IF IsSmall(ds) THEN SmallInt(IntDigits(ds))
    ELSE IntDigits(ds)

\* key in d, for a dict d whose keys are ints: a key is the int n when the
\* two are written alike
has_key(d, n) == ToString(n) \in {ToString(key) : key \in DOMAIN d}

\* s.startswith(prefix) at offset p
StartsAt(s, p, prefix) ==
    /\ p + Len(prefix) <= Len(s)
    /\ \A k \in 1..Len(prefix) : s[p + k] = prefix[k]

----------------------------------------------------------------------------
(* Exceptions *)

NoError == [type |-> "none", line |-> 0, pos |-> -1, color |-> <<>>]

\* An exception raised at the given source line of rtf_color_parser.py.
\* pos and color are the values its message names (-1, <<>> when it names none).
Raise(type, line, pos, color) == [type |-> type, line |-> line, pos |-> pos, color |-> color]

----------------------------------------------------------------------------
(* _next_rtf_color_tag_idx *)

\* re.search(r'\\cf([\d]*)', rtf_str): offsets at which \cf starts
CfStarts(rtf_str) ==
    {q \in 0..(Len(rtf_str) - 3) : StartsAt(rtf_str, q, <<BS, "c", "f">>)}

\* A search that passes over a \cf without number and describes the first
\* \cf that has one
_next_rtf_color_tag_idx_skipping(rtf_str) ==
    LET numbered == {q \in CfStarts(rtf_str) :
                        ~int_raises(Slice(rtf_str, q + 3,
                                          q + 3 + Run(rtf_str, q + 3, Digits)))}
    IN  IF numbered = {}
        THEN [kind |-> "None", tag_start |-> 0, tag_len |-> 0, color_num |-> 0]
        ELSE LET q == Min(numbered)
                 n == Run(rtf_str, q + 3, Digits)
             IN  [kind |-> "dict", tag_start |-> q, tag_len |-> 3 + n,
                  color_num |-> int(Slice(rtf_str, q + 3, q + 3 + n))]

_next_rtf_color_tag_idx(rtf_str) ==
    IF CfStarts(rtf_str) = {}
    THEN [kind |-> "None", tag_start |-> 0, tag_len |-> 0, color_num |-> 0]
    ELSE LET q == Min(CfStarts(rtf_str))
             n == Run(rtf_str, q + 3, Digits)
         IN  IF int_raises(Slice(rtf_str, q + 3, q + 3 + n))
             THEN \* int() raises ValueError (line 507), re-raised at line 519
                  [kind |-> "ValueError", tag_start |-> q, tag_len |-> 3 + n, color_num |-> 0]
             ELSE [kind |-> "dict", tag_start |-> q, tag_len |-> 3 + n,
                   color_num |-> int(Slice(rtf_str, q + 3, q + 3 + n))]

----------------------------------------------------------------------------
(* color_tag_gen, a generator: the call runs none of its body, and every   *)
(* next() runs it from where it was suspended (at first from its start,    *)
(* with new_end = 0) to the next yield, to its end, or to a raise.         *)

\* What a resumption that yields nothing carries in place of a dict
NoTag == [tag_start |-> -1, tag_len |-> 0, rgb_str |-> <<>>]

\* A resumption with tag_start left as the offset into rtf_txt[new_end:]
color_tag_gen_next_suffix(rtf_txt, color_dict, new_end) ==
    LET span_and_color_dict == _next_rtf_color_tag_idx(SliceFrom(rtf_txt, new_end))
    IN  IF span_and_color_dict.kind = "None"
        THEN [kind |-> "StopIteration", value |-> NoTag, new_end |-> new_end, err |-> NoError]
        ELSE IF span_and_color_dict.kind = "ValueError"
        THEN [kind |-> "raise", value |-> NoTag, new_end |-> new_end,
              err |-> Raise("ValueError", 519, -1, <<>>)]
        ELSE IF ~has_key(color_dict, span_and_color_dict.color_num)
        THEN [kind |-> "raise", value |-> NoTag, new_end |-> new_end,
              err |-> Raise("ValueError", 348, -1, <<>>)]
        ELSE [kind    |-> "yield",
              value   |-> [tag_start |-> span_and_color_dict.tag_start,
                           tag_len   |-> span_and_color_dict.tag_len,
                           rgb_str   |-> color_dict[span_and_color_dict.color_num]],
              new_end |-> new_end + span_and_color_dict.tag_start
                              + span_and_color_dict.tag_len,
              err     |-> NoError]

\* A resumption that resolves a number outside the colour table to the
\* table's first entry
color_tag_gen_next_lenient(rtf_txt, color_dict, new_end) ==
    LET span_and_color_dict == _next_rtf_color_tag_idx(SliceFrom(rtf_txt, new_end))
    IN  IF span_and_color_dict.kind = "None"
        THEN [kind |-> "StopIteration", value |-> NoTag, new_end |-> new_end, err |-> NoError]
        ELSE IF span_and_color_dict.kind = "ValueError"
        THEN [kind |-> "raise", value |-> NoTag, new_end |-> new_end,
              err |-> Raise("ValueError", 519, -1, <<>>)]
        ELSE IF DOMAIN color_dict = {}
        THEN [kind |-> "raise", value |-> NoTag, new_end |-> new_end,
              err |-> Raise("ValueError", 348, -1, <<>>)]
        ELSE LET tag_start == new_end + span_and_color_dict.tag_start
                 tag_len   == span_and_color_dict.tag_len
                 color_num == IF has_key(color_dict, span_and_color_dict.color_num)
                              THEN span_and_color_dict.color_num
                              ELSE Min(DOMAIN color_dict)
             IN  [kind    |-> "yield",
                  value   |-> [tag_start |-> tag_start, tag_len |-> tag_len,
                               rgb_str   |-> color_dict[color_num]],
                  new_end |-> tag_start + tag_len,
                  err     |-> NoError]

\* lines 335-360, one resumption of the generator suspended with new_end:
\* the loop test searches rtf_txt[new_end:]; nothing found ends the
\* generator (StopIteration); a \cf that int() refuses raises at line 519 and
\* a number that is no key of the colour table at line 348; otherwise the
\* dict of the tag is yielded and the generator is suspended with new_end
\* behind the tag.
color_tag_gen_next(rtf_txt, color_dict, new_end) ==
    LET span_and_color_dict == _next_rtf_color_tag_idx(SliceFrom(rtf_txt, new_end))
    IN  IF span_and_color_dict.kind = "None"
        THEN [kind |-> "StopIteration", value |-> NoTag, new_end |-> new_end, err |-> NoError]
        ELSE IF span_and_color_dict.kind = "ValueError"
        THEN [kind |-> "raise", value |-> NoTag, new_end |-> new_end,
              err |-> Raise("ValueError", 519, -1, <<>>)]
        ELSE LET tag_start == new_end + span_and_color_dict.tag_start
                 tag_len   == span_and_color_dict.tag_len
                 color_num == span_and_color_dict.color_num
             IN  IF ~has_key(color_dict, color_num)
                 THEN \* KeyError at line 345
                      [kind |-> "raise", value |-> NoTag, new_end |-> new_end,
                       err |-> Raise("ValueError", 348, -1, <<>>)]
                 ELSE [kind    |-> "yield",
                       value   |-> [tag_start |-> tag_start, tag_len |-> tag_len,
                                    rgb_str   |-> color_dict[color_num]],
                       new_end |-> tag_start + tag_len,
                       err     |-> NoError]

----------------------------------------------------------------------------
(* The tagmap: a Python dict, kept as its entries in insertion order.      *)
(* An entry is [kstr, key, val]: kstr says whether the key is a str; a     *)
(* key of another type is kept as its repr.                                *)

\* key in tagmap (a str key never equals a key of another type)
TagmapHas(tm, key) == \E k \in 1..Len(tm) : tm[k].kstr /\ tm[k].key = key

\* tagmap[key]
TagmapGet(tm, key) == tm[CHOOSE k \in 1..Len(tm) : tm[k].kstr /\ tm[k].key = key].val

----------------------------------------------------------------------------
(* output_txt_script, lines 213-230: resolve every tag to its name *)

\* Mutant of on_missing_name: a colour without an entry gets the empty name
on_missing_name_blank(tag_info) == [raised |-> FALSE, name |-> <<>>, err |-> NoError]

\* KeyError handler of the loop: line 228 raises, naming tag_start and rgb_str
on_missing_name(tag_info) ==
    [raised |-> TRUE, name |-> <<>>,
     err |-> Raise("ValueError", 228, tag_info.tag_start, tag_info.rgb_str)]

\* One iteration of the loop body for a yielded tag_info
lookup_name(tm, tag_info) ==
    IF TagmapHas(tm, tag_info.rgb_str)
    THEN [raised |-> FALSE, name |-> TagmapGet(tm, tag_info.rgb_str), err |-> NoError]
    ELSE on_missing_name(tag_info)

\* lines 213-230, the for loop over the generator suspended with new_end:
\* every iteration resumes it once; its StopIteration ends the loop, its
\* ValueError leaves the loop, and so does the ValueError of line 228.
RECURSIVE gather_from(_, _, _, _, _)
gather_from(rtf_txt, color_dict, tm, new_end, acc) ==
    LET step == color_tag_gen_next(rtf_txt, color_dict, new_end)
    IN  IF step.kind = "StopIteration"
        THEN [tags_info |-> acc, err |-> NoError]
        ELSE IF step.kind = "raise"
        THEN [tags_info |-> acc, err |-> step.err]
        ELSE LET r == lookup_name(tm, step.value)
             IN  IF r.raised
                 THEN [tags_info |-> acc, err |-> r.err]
                 ELSE gather_from(rtf_txt, color_dict, tm, step.new_end,
                          Append(acc, [tag_start |-> step.value.tag_start,
                                       tag_len   |-> step.value.tag_len,
                                       rgb_str   |-> step.value.rgb_str,
                                       name      |-> r.name]))

\* lines 210-230: the generator is created and consumed by the loop
gather_tags_info(rtf_txt, color_dict, tm) ==
    gather_from(rtf_txt, color_dict, tm, 0, <<>>)

----------------------------------------------------------------------------
(* output_txt_script, line 236: protect the colour tags *)

\* re.sub(r'\\cf(\d+)', '\x00cf\\1', rtf_content): the backslash of every
\* \cf followed by at least one digit becomes \x00 (matches start with a
\* backslash and hold no other, so they never overlap).
protect(rtf) ==
    [p \in 1..Len(rtf) |->
        IF StartsAt(rtf, p - 1, <<BS, "c", "f">>) /\ Run(rtf, p + 2, Digits) >= 1
        THEN marker_char_used ELSE rtf[p]]

----------------------------------------------------------------------------
(* rtf_to_text: the striprtf converter called at line 241.  It tokenises   *)
(* with                                                                    *)
(*   \\([a-z]{1,32})(-?\d{1,10})?[ ]?|\\'([0-9a-f]{2})|\\([^a-z])|([{}])|  *)
(*   [\r\n]+|(.)     (case-insensitive)                                    *)
(* and keeps the plain characters outside ignorable groups, the            *)
(* characters that control words and symbols stand for, the bytes of hex   *)
(* escapes decoded as cp1252, and the characters of \u.  Left out: the     *)
(* rewriting of \field groups that hold HYPERLINK, and \ansicpg with a     *)
(* code page other than 1252.                                              *)

\* [a-z] under re.IGNORECASE: the ASCII letters and the four characters
\* whose case folding is an ASCII letter (U+0130, U+0131, U+017F, U+212A)
RtfLetters == LowerLetters \cup UpperLetters \cup {"U+0130", "U+0131", "U+017F", "U+212A"}

\* destinations: the control words that open a destination, a group whose
\* text is dropped
Destinations ==
    { <<"a", "f", "t", "n", "c", "n">>,
      <<"a", "f", "t", "n", "s", "e", "p">>,
      <<"a", "f", "t", "n", "s", "e", "p", "c">>,
      <<"a", "n", "n", "o", "t", "a", "t", "i", "o", "n">>,
      <<"a", "t", "n", "a", "u", "t", "h", "o", "r">>,
      <<"a", "t", "n", "d", "a", "t", "e">>,
      <<"a", "t", "n", "i", "c", "n">>, <<"a", "t", "n", "i", "d">>,
      <<"a", "t", "n", "p", "a", "r", "e", "n", "t">>,
      <<"a", "t", "n", "r", "e", "f">>,
      <<"a", "t", "n", "t", "i", "m", "e">>,
      <<"a", "t", "r", "f", "e", "n", "d">>,
      <<"a", "t", "r", "f", "s", "t", "a", "r", "t">>,
      <<"a", "u", "t", "h", "o", "r">>,
      <<"b", "a", "c", "k", "g", "r", "o", "u", "n", "d">>,
      <<"b", "k", "m", "k", "e", "n", "d">>,
      <<"b", "k", "m", "k", "s", "t", "a", "r", "t">>,
      <<"b", "l", "i", "p", "u", "i", "d">>,
      <<"b", "u", "p", "t", "i", "m">>,
      <<"c", "a", "t", "e", "g", "o", "r", "y">>,
      <<"c", "o", "l", "o", "r", "s", "c", "h", "e", "m", "e", "m", "a", "p", "p", "i", "n", "g">>,
      <<"c", "o", "l", "o", "r", "t", "b", "l">>,
      <<"c", "o", "m", "m", "e", "n", "t">>,
      <<"c", "o", "m", "p", "a", "n", "y">>,
      <<"c", "r", "e", "a", "t", "i", "m">>,
      <<"d", "a", "t", "a", "f", "i", "e", "l", "d">>,
      <<"d", "a", "t", "a", "s", "t", "o", "r", "e">>,
      <<"d", "e", "f", "c", "h", "p">>, <<"d", "e", "f", "p", "a", "p">>,
      <<"d", "o">>, <<"d", "o", "c", "c", "o", "m", "m">>,
      <<"d", "o", "c", "v", "a", "r">>,
      <<"d", "p", "t", "x", "b", "x", "t", "e", "x", "t">>,
      <<"e", "b", "c", "e", "n", "d">>,
      <<"e", "b", "c", "s", "t", "a", "r", "t">>,
      <<"f", "a", "c", "t", "o", "i", "d", "n", "a", "m", "e">>,
      <<"f", "a", "l", "t">>, <<"f", "c", "h", "a", "r", "s">>,
      <<"f", "f", "d", "e", "f", "t", "e", "x", "t">>,
      <<"f", "f", "e", "n", "t", "r", "y", "m", "c", "r">>,
      <<"f", "f", "e", "x", "i", "t", "m", "c", "r">>,
      <<"f", "f", "f", "o", "r", "m", "a", "t">>,
      <<"f", "f", "h", "e", "l", "p", "t", "e", "x", "t">>,
      <<"f", "f", "l">>, <<"f", "f", "n", "a", "m", "e">>,
      <<"f", "f", "s", "t", "a", "t", "t", "e", "x", "t">>,
      <<"f", "i", "l", "e">>, <<"f", "i", "l", "e", "t", "b", "l">>,
      <<"f", "l", "d", "i", "n", "s", "t">>,
      <<"f", "l", "d", "t", "y", "p", "e">>, <<"f", "n", "a", "m", "e">>,
      <<"f", "o", "n", "t", "e", "m", "b">>,
      <<"f", "o", "n", "t", "f", "i", "l", "e">>,
      <<"f", "o", "n", "t", "t", "b", "l">>,
      <<"f", "o", "o", "t", "e", "r">>,
      <<"f", "o", "o", "t", "e", "r", "f">>,
      <<"f", "o", "o", "t", "e", "r", "l">>,
      <<"f", "o", "o", "t", "e", "r", "r">>,
      <<"f", "o", "o", "t", "n", "o", "t", "e">>,
      <<"f", "o", "r", "m", "f", "i", "e", "l", "d">>,
      <<"f", "t", "n", "c", "n">>, <<"f", "t", "n", "s", "e", "p">>,
      <<"f", "t", "n", "s", "e", "p", "c">>, <<"g">>,
      <<"g", "e", "n", "e", "r", "a", "t", "o", "r">>,
      <<"g", "r", "i", "d", "t", "b", "l">>,
      <<"h", "e", "a", "d", "e", "r">>,
      <<"h", "e", "a", "d", "e", "r", "f">>,
      <<"h", "e", "a", "d", "e", "r", "l">>,
      <<"h", "e", "a", "d", "e", "r", "r">>, <<"h", "l">>,
      <<"h", "l", "f", "r">>,
      <<"h", "l", "i", "n", "k", "b", "a", "s", "e">>,
      <<"h", "l", "l", "o", "c">>, <<"h", "l", "s", "r", "c">>,
      <<"h", "s", "v">>, <<"h", "t", "m", "l", "t", "a", "g">>,
      <<"i", "n", "f", "o">>, <<"k", "e", "y", "c", "o", "d", "e">>,
      <<"k", "e", "y", "w", "o", "r", "d", "s">>,
      <<"l", "a", "t", "e", "n", "t", "s", "t", "y", "l", "e", "s">>,
      <<"l", "c", "h", "a", "r", "s">>,
      <<"l", "e", "v", "e", "l", "n", "u", "m", "b", "e", "r", "s">>,
      <<"l", "e", "v", "e", "l", "t", "e", "x", "t">>,
      <<"l", "f", "o", "l", "e", "v", "e", "l">>,
      <<"l", "i", "n", "k", "v", "a", "l">>, <<"l", "i", "s", "t">>,
      <<"l", "i", "s", "t", "l", "e", "v", "e", "l">>,
      <<"l", "i", "s", "t", "n", "a", "m", "e">>,
      <<"l", "i", "s", "t", "o", "v", "e", "r", "r", "i", "d", "e">>,
      <<"l", "i", "s", "t", "o", "v", "e", "r", "r", "i", "d", "e", "t", "a", "b", "l", "e">>,
      <<"l", "i", "s", "t", "p", "i", "c", "t", "u", "r", "e">>,
      <<"l", "i", "s", "t", "s", "t", "y", "l", "e", "n", "a", "m", "e">>,
      <<"l", "i", "s", "t", "t", "a", "b", "l", "e">>,
      <<"l", "i", "s", "t", "t", "e", "x", "t">>,
      <<"l", "s", "d", "l", "o", "c", "k", "e", "d", "e", "x", "c", "e", "p", "t">>,
      <<"m", "a", "c", "c">>, <<"m", "a", "c", "c", "P", "r">>,
      <<"m", "a", "i", "l", "m", "e", "r", "g", "e">>,
      <<"m", "a", "l", "n">>, <<"m", "a", "l", "n", "S", "c", "r">>,
      <<"m", "a", "n", "a", "g", "e", "r">>,
      <<"m", "a", "r", "g", "P", "r">>, <<"m", "b", "a", "r">>,
      <<"m", "b", "a", "r", "P", "r">>,
      <<"m", "b", "a", "s", "e", "J", "c">>,
      <<"m", "b", "e", "g", "C", "h", "r">>,
      <<"m", "b", "o", "r", "d", "e", "r", "B", "o", "x">>,
      <<"m", "b", "o", "r", "d", "e", "r", "B", "o", "x", "P", "r">>,
      <<"m", "b", "o", "x">>, <<"m", "b", "o", "x", "P", "r">>,
      <<"m", "c", "h", "r">>, <<"m", "c", "o", "u", "n", "t">>,
      <<"m", "c", "t", "r", "l", "P", "r">>, <<"m", "d">>,
      <<"m", "d", "e", "g">>, <<"m", "d", "e", "g", "H", "i", "d", "e">>,
      <<"m", "d", "e", "n">>, <<"m", "d", "i", "f", "f">>,
      <<"m", "d", "P", "r">>, <<"m", "e">>,
      <<"m", "e", "n", "d", "C", "h", "r">>,
      <<"m", "e", "q", "A", "r", "r">>,
      <<"m", "e", "q", "A", "r", "r", "P", "r">>, <<"m", "f">>,
      <<"m", "f", "N", "a", "m", "e">>, <<"m", "f", "P", "r">>,
      <<"m", "f", "u", "n", "c">>, <<"m", "f", "u", "n", "c", "P", "r">>,
      <<"m", "g", "r", "o", "u", "p", "C", "h", "r">>,
      <<"m", "g", "r", "o", "u", "p", "C", "h", "r", "P", "r">>,
      <<"m", "g", "r", "o", "w">>,
      <<"m", "h", "i", "d", "e", "B", "o", "t">>,
      <<"m", "h", "i", "d", "e", "L", "e", "f", "t">>,
      <<"m", "h", "i", "d", "e", "R", "i", "g", "h", "t">>,
      <<"m", "h", "i", "d", "e", "T", "o", "p">>,
      <<"m", "h", "t", "m", "l", "t", "a", "g">>, <<"m", "l", "i", "m">>,
      <<"m", "l", "i", "m", "l", "o", "c">>,
      <<"m", "l", "i", "m", "l", "o", "w">>,
      <<"m", "l", "i", "m", "l", "o", "w", "P", "r">>,
      <<"m", "l", "i", "m", "u", "p", "p">>,
      <<"m", "l", "i", "m", "u", "p", "p", "P", "r">>, <<"m", "m">>,
      <<"m", "m", "a", "d", "d", "f", "i", "e", "l", "d", "n", "a", "m", "e">>,
      <<"m", "m", "a", "t", "h">>,
      <<"m", "m", "a", "t", "h", "P", "i", "c", "t">>,
      <<"m", "m", "a", "t", "h", "P", "r">>,
      <<"m", "m", "a", "x", "d", "i", "s", "t">>, <<"m", "m", "c">>,
      <<"m", "m", "c", "J", "c">>,
      <<"m", "m", "c", "o", "n", "n", "e", "c", "t", "s", "t", "r">>,
      <<"m", "m", "c", "o", "n", "n", "e", "c", "t", "s", "t", "r", "d", "a", "t", "a">>,
      <<"m", "m", "c", "P", "r">>, <<"m", "m", "c", "s">>,
      <<"m", "m", "d", "a", "t", "a", "s", "o", "u", "r", "c", "e">>,
      <<"m", "m", "h", "e", "a", "d", "e", "r", "s", "o", "u", "r", "c", "e">>,
      <<"m", "m", "m", "a", "i", "l", "s", "u", "b", "j", "e", "c", "t">>,
      <<"m", "m", "o", "d", "s", "o">>,
      <<"m", "m", "o", "d", "s", "o", "f", "i", "l", "t", "e", "r">>,
      <<"m", "m", "o", "d", "s", "o", "f", "l", "d", "m", "p", "d", "a", "t", "a">>,
      <<"m", "m", "o", "d", "s", "o", "m", "a", "p", "p", "e", "d", "n", "a", "m", "e">>,
      <<"m", "m", "o", "d", "s", "o", "n", "a", "m", "e">>,
      <<"m", "m", "o", "d", "s", "o", "r", "e", "c", "i", "p", "d", "a", "t", "a">>,
      <<"m", "m", "o", "d", "s", "o", "s", "o", "r", "t">>,
      <<"m", "m", "o", "d", "s", "o", "s", "r", "c">>,
      <<"m", "m", "o", "d", "s", "o", "t", "a", "b", "l", "e">>,
      <<"m", "m", "o", "d", "s", "o", "u", "d", "l">>,
      <<"m", "m", "o", "d", "s", "o", "u", "d", "l", "d", "a", "t", "a">>,
      <<"m", "m", "o", "d", "s", "o", "u", "n", "i", "q", "u", "e", "t", "a", "g">>,
      <<"m", "m", "P", "r">>, <<"m", "m", "q", "u", "e", "r", "y">>,
      <<"m", "m", "r">>, <<"m", "n", "a", "r", "y">>,
      <<"m", "n", "a", "r", "y", "P", "r">>,
      <<"m", "n", "o", "B", "r", "e", "a", "k">>, <<"m", "n", "u", "m">>,
      <<"m", "o", "b", "j", "D", "i", "s", "t">>,
      <<"m", "o", "M", "a", "t", "h">>,
      <<"m", "o", "M", "a", "t", "h", "P", "a", "r", "a">>,
      <<"m", "o", "M", "a", "t", "h", "P", "a", "r", "a", "P", "r">>,
      <<"m", "o", "p", "E", "m", "u">>, <<"m", "p", "h", "a", "n", "t">>,
      <<"m", "p", "h", "a", "n", "t", "P", "r">>,
      <<"m", "p", "l", "c", "H", "i", "d", "e">>, <<"m", "p", "o", "s">>,
      <<"m", "r">>, <<"m", "r", "a", "d">>, <<"m", "r", "a", "d", "P", "r">>,
      <<"m", "r", "P", "r">>, <<"m", "s", "e", "p", "C", "h", "r">>,
      <<"m", "s", "h", "o", "w">>, <<"m", "s", "h", "p">>,
      <<"m", "s", "P", "r", "e">>, <<"m", "s", "P", "r", "e", "P", "r">>,
      <<"m", "s", "S", "u", "b">>, <<"m", "s", "S", "u", "b", "P", "r">>,
      <<"m", "s", "S", "u", "b", "S", "u", "p">>,
      <<"m", "s", "S", "u", "b", "S", "u", "p", "P", "r">>,
      <<"m", "s", "S", "u", "p">>, <<"m", "s", "S", "u", "p", "P", "r">>,
      <<"m", "s", "t", "r", "i", "k", "e", "B", "L", "T", "R">>,
      <<"m", "s", "t", "r", "i", "k", "e", "H">>,
      <<"m", "s", "t", "r", "i", "k", "e", "T", "L", "B", "R">>,
      <<"m", "s", "t", "r", "i", "k", "e", "V">>, <<"m", "s", "u", "b">>,
      <<"m", "s", "u", "b", "H", "i", "d", "e">>, <<"m", "s", "u", "p">>,
      <<"m", "s", "u", "p", "H", "i", "d", "e">>,
      <<"m", "t", "r", "a", "n", "s", "p">>, <<"m", "t", "y", "p", "e">>,
      <<"m", "v", "e", "r", "t", "J", "c">>, <<"m", "v", "f", "m", "f">>,
      <<"m", "v", "f", "m", "l">>, <<"m", "v", "t", "o", "f">>,
      <<"m", "v", "t", "o", "l">>,
      <<"m", "z", "e", "r", "o", "A", "s", "c">>,
      <<"m", "z", "e", "r", "o", "D", "e", "s", "c">>,
      <<"m", "z", "e", "r", "o", "W", "i", "d">>,
      <<"n", "e", "s", "t", "t", "a", "b", "l", "e", "p", "r", "o", "p", "s">>,
      <<"n", "e", "x", "t", "f", "i", "l", "e">>,
      <<"n", "o", "n", "e", "s", "t", "t", "a", "b", "l", "e", "s">>,
      <<"o", "b", "j", "a", "l", "i", "a", "s">>,
      <<"o", "b", "j", "c", "l", "a", "s", "s">>,
      <<"o", "b", "j", "d", "a", "t", "a">>,
      <<"o", "b", "j", "e", "c", "t">>,
      <<"o", "b", "j", "n", "a", "m", "e">>,
      <<"o", "b", "j", "s", "e", "c", "t">>,
      <<"o", "b", "j", "t", "i", "m", "e">>,
      <<"o", "l", "d", "c", "p", "r", "o", "p", "s">>,
      <<"o", "l", "d", "p", "p", "r", "o", "p", "s">>,
      <<"o", "l", "d", "s", "p", "r", "o", "p", "s">>,
      <<"o", "l", "d", "t", "p", "r", "o", "p", "s">>,
      <<"o", "l", "e", "c", "l", "s", "i", "d">>,
      <<"o", "p", "e", "r", "a", "t", "o", "r">>,
      <<"p", "a", "n", "o", "s", "e">>,
      <<"p", "a", "s", "s", "w", "o", "r", "d">>,
      <<"p", "a", "s", "s", "w", "o", "r", "d", "h", "a", "s", "h">>,
      <<"p", "g", "p">>, <<"p", "g", "p", "t", "b", "l">>,
      <<"p", "i", "c", "p", "r", "o", "p">>, <<"p", "i", "c", "t">>,
      <<"p", "n">>, <<"p", "n", "s", "e", "c", "l", "v", "l">>,
      <<"p", "n", "t", "e", "x", "t">>, <<"p", "n", "t", "x", "t", "a">>,
      <<"p", "n", "t", "x", "t", "b">>,
      <<"p", "r", "i", "n", "t", "i", "m">>,
      <<"p", "r", "i", "v", "a", "t", "e">>,
      <<"p", "r", "o", "p", "n", "a", "m", "e">>,
      <<"p", "r", "o", "t", "e", "n", "d">>,
      <<"p", "r", "o", "t", "s", "t", "a", "r", "t">>,
      <<"p", "r", "o", "t", "u", "s", "e", "r", "t", "b", "l">>,
      <<"p", "x", "e">>, <<"r", "e", "s", "u", "l", "t">>,
      <<"r", "e", "v", "t", "b", "l">>, <<"r", "e", "v", "t", "i", "m">>,
      <<"r", "s", "i", "d", "t", "b", "l">>, <<"r", "x", "e">>,
      <<"s", "h", "p">>, <<"s", "h", "p", "g", "r", "p">>,
      <<"s", "h", "p", "i", "n", "s", "t">>,
      <<"s", "h", "p", "p", "i", "c", "t">>,
      <<"s", "h", "p", "r", "s", "l", "t">>,
      <<"s", "h", "p", "t", "x", "t">>, <<"s", "n">>, <<"s", "p">>,
      <<"s", "t", "a", "t", "i", "c", "v", "a", "l">>,
      <<"s", "t", "y", "l", "e", "s", "h", "e", "e", "t">>,
      <<"s", "u", "b", "j", "e", "c", "t">>, <<"s", "v">>, <<"s", "v", "b">>,
      <<"t", "c">>, <<"t", "e", "m", "p", "l", "a", "t", "e">>,
      <<"t", "h", "e", "m", "e", "d", "a", "t", "a">>,
      <<"t", "i", "t", "l", "e">>, <<"t", "x", "e">>, <<"u", "d">>,
      <<"u", "p", "r">>, <<"u", "s", "e", "r", "p", "r", "o", "p", "s">>,
      <<"w", "g", "r", "f", "f", "m", "t", "f", "i", "l", "t", "e", "r">>,
      <<"w", "i", "n", "d", "o", "w", "c", "a", "p", "t", "i", "o", "n">>,
      <<"w", "r", "i", "t", "e", "r", "e", "s", "e", "r", "v", "a", "t", "i", "o", "n">>,
      <<"w", "r", "i", "t", "e", "r", "e", "s", "e", "r", "v", "h", "a", "s", "h">>,
      <<"x", "e">>, <<"x", "f", "o", "r", "m">>,
      <<"x", "m", "l", "a", "t", "t", "r", "n", "a", "m", "e">>,
      <<"x", "m", "l", "a", "t", "t", "r", "v", "a", "l", "u", "e">>,
      <<"x", "m", "l", "c", "l", "o", "s", "e">>,
      <<"x", "m", "l", "n", "a", "m", "e">>,
      <<"x", "m", "l", "n", "s", "t", "b", "l">>,
      <<"x", "m", "l", "o", "p", "e", "n">> }

\* specialchars, the control words that stand for characters
SpecialWordText(word) ==
    CASE word = <<"p", "a", "r">> -> <<"\n">>
      [] word = <<"s", "e", "c", "t">> -> <<"\n", "\n">>
      [] word = <<"p", "a", "g", "e">> -> <<"\n", "\n">>
      [] word = <<"l", "i", "n", "e">> -> <<"\n">>
      [] word = <<"t", "a", "b">> -> <<"\t">>
      [] word = <<"e", "m", "d", "a", "s", "h">> -> <<"U+2014">>
      [] word = <<"e", "n", "d", "a", "s", "h">> -> <<"U+2013">>
      [] word = <<"e", "m", "s", "p", "a", "c", "e">> -> <<"U+2003">>
      [] word = <<"e", "n", "s", "p", "a", "c", "e">> -> <<"U+2002">>
      [] word = <<"q", "m", "s", "p", "a", "c", "e">> -> <<"U+2005">>
      [] word = <<"b", "u", "l", "l", "e", "t">> -> <<"U+2022">>
      [] word = <<"l", "q", "u", "o", "t", "e">> -> <<"U+2018">>
      [] word = <<"r", "q", "u", "o", "t", "e">> -> <<"U+2019">>
      [] word = <<"l", "d", "b", "l", "q", "u", "o", "t", "e">> -> <<"U+201C">>
      [] word = <<"r", "d", "b", "l", "q", "u", "o", "t", "e">> -> <<"U+201D">>
      [] word = <<"r", "o", "w">> -> <<"\n">>
      [] word = <<"c", "e", "l", "l">> -> <<"|">>
      [] word = <<"n", "e", "s", "t", "c", "e", "l", "l">> -> <<"|">>
      [] OTHER -> <<>>

\* specialchars, the control symbols (backslash and a character that is no
\* letter) that stand for a character
SpecialCharText(ch) ==
    CASE ch = "~"  -> <<"U+00A0">>
      [] ch = "\n" -> <<"\n">>
      [] ch = "\r" -> <<"\r">>
      [] ch = "{"  -> <<"{">>
      [] ch = "}"  -> <<"}">>
      [] ch = BS   -> <<BS>>
      [] ch = "-"  -> <<"U+00AD">>
      [] ch = "_"  -> <<"U+2011">>
      [] OTHER     -> <<>>

AtMost(n, cap) == IF n > cap THEN cap ELSE n

\* The characters U+0020 to U+007E, but for U+0060, which has no literal
PrintableAscii ==
    << " ", "!", "\"", "#", "$", "%", "&", "'", "(", ")", "*", "+", ",", "-",
       ".", "/", "0", "1", "2", "3", "4", "5", "6", "7", "8", "9", ":", ";",
       "<", "=", ">", "?", "@", "A", "B", "C", "D", "E", "F", "G", "H", "I",
       "J", "K", "L", "M", "N", "O", "P", "Q", "R", "S", "T", "U", "V", "W",
       "X", "Y", "Z", "[", "\\", "]", "^", "_", "a", "b", "c", "d", "e", "f",
       "g", "h", "i", "j", "k", "l", "m", "n", "o", "p", "q", "r", "s", "t",
       "u", "v", "w", "x", "y", "z", "{", "|", "}", "~" >>

UpperHexDigits ==
    <<"0", "1", "2", "3", "4", "5", "6", "7", "8", "9", "A", "B", "C", "D", "E", "F">>

\* n in hexadecimal, in w digits or more
RECURSIVE hex_str(_, _)
hex_str(n, w) ==
    IF n < 16 /\ w <= 1 THEN UpperHexDigits[n + 1]
    ELSE hex_str(n \div 16, w - 1) \o UpperHexDigits[(n % 16) + 1]

\* chr(c) for c in range(0x110000)
chr(c) ==
    IF c >= 32 /\ c <= 95 THEN PrintableAscii[c - 31]
    ELSE IF c >= 97 /\ c <= 126 THEN PrintableAscii[c - 32]
    ELSE CASE c = 0 -> "NUL" [] c = 1 -> "SOH" [] c = 2 -> "STX" [] c = 3 -> "ETX"
           [] c = 4 -> "EOT" [] c = 9 -> "\t" [] c = 10 -> "\n" [] c = 12 -> "\f"
           [] c = 13 -> "\r" [] OTHER -> "U+" \o hex_str(c, 4)

\* The code points of the bytes 0x80 to 0x9F in cp1252; -1 for the five
\* bytes the code page leaves undefined
Cp1252High ==
    << 8364, -1, 8218, 402, 8222, 8230, 8224, 8225, 710, 8240, 352, 8249,
       338, -1, 381, -1, -1, 8216, 8217, 8220, 8221, 8226, 8211, 8212, 732,
       8482, 353, 8250, 339, -1, 382, 376 >>

\* bytes([b]).decode('cp1252') as a code point, -1 when it raises
cp1252(b) == IF b >= 128 /\ b <= 159 THEN Cp1252High[b - 127] ELSE b

\* [0-9a-f] under re.IGNORECASE
RtfHexDigits ==
    <<"0", "1", "2", "3", "4", "5", "6", "7", "8", "9", "a", "b", "c", "d", "e", "f">>

IsRtfHexDigit(ch) ==
    \E k \in 1..16 : ch = RtfHexDigits[k] \/ ch = UpperHexDigits[k]

RtfHexVal(ch) ==
    (CHOOSE k \in 1..16 : ch = RtfHexDigits[k] \/ ch = UpperHexDigits[k]) - 1

\* \'hh starts at offset p
IsHexEscape(text, p) ==
    /\ p + 3 < Len(text)
    /\ At(text, p) = BS /\ At(text, p + 1) = "'"
    /\ IsRtfHexDigit(At(text, p + 2)) /\ IsRtfHexDigit(At(text, p + 3))

\* What rtf_to_text returns, or the exception that leaves it
RtfText(out) == [kind |-> "str", text |-> out]

RtfRaise(type) == [kind |-> type, text |-> <<>>]

\* The argument of a control word: none, or an int.  small says whether it
\* fits 32 bits; val is its value then.
RtfArg(text, q, sign, nd) ==
    LET ds == Slice(text, q + sign, q + sign + nd)
    IN  [given |-> nd >= 1,
         neg   |-> sign = 1,
         small |-> nd >= 1 /\ IsSmall(ds),
         val   |-> IF nd >= 1 /\ IsSmall(ds)
                   THEN (IF sign = 1 THEN 0 - SmallInt(IntDigits(ds)) ELSE SmallInt(IntDigits(ds)))
                   ELSE 0]

\* \uN: c = int(arg), plus 0x10000 when negative; chr(c) raises ValueError
\* outside range(0x110000), OverflowError outside the C ints
UnicodeChar(arg) ==
    LET c == IF arg.val < 0 THEN arg.val + 65536 ELSE arg.val
    IN  IF ~arg.small THEN RtfRaise("OverflowError")
        ELSE IF c < 0 \/ c > 1114111 THEN RtfRaise("ValueError")
        ELSE RtfText(<<chr(c)>>)

\* The state of the loop: the stack of (ucskip, ignorable), the two of the
\* current group, curskip and the hex bytes not yet decoded.  A skip count
\* is kept as the number of tokens it can still skip: none when negative,
\* at most all of the text.
RtfStart ==
    [stack |-> <<>>, ignorable |-> FALSE, ucskip |-> 1, curskip |-> 0, hexes |-> <<>>]

\* The loop at offset p of the text, in state st, with the characters out
\* written so far
RtfAt(p, st, out) == [kind |-> "go", p |-> p, st |-> st, out |-> out]

\* The loop has ended: with the text returned, or with an exception
RtfEnd(res) == [kind |-> res.kind, p |-> 0, st |-> RtfStart, out |-> res.text]

\* One pass of the loop over the tokens: the token at offset s.p
rtf_token(text, s) ==
    LET p   == s.p
        st  == s.st
        out == s.out
    IN
    IF p >= Len(text) THEN RtfEnd(RtfText(out))
    ELSE IF st.hexes /= <<>> /\ ~IsHexEscape(text, p)
    THEN \* a token that is no hex escape: the pending bytes are decoded
         IF \E k \in 1..Len(st.hexes) : cp1252(st.hexes[k]) = -1
         THEN RtfEnd(RtfRaise("UnicodeDecodeError"))
         ELSE RtfAt(p, [st EXCEPT !.hexes = <<>>],
                    out \o [k \in 1..Len(st.hexes) |-> chr(cp1252(st.hexes[k]))])
    ELSE IF At(text, p) = BS /\ p + 1 < Len(text) /\ At(text, p + 1) \in RtfLetters
    THEN \* control word, its numeric argument and its delimiting space
         LET nl   == AtMost(Run(text, p + 1, RtfLetters), 32)
             word == Slice(text, p + 1, p + 1 + nl)
             q    == p + 1 + nl
             sign == IF q < Len(text) /\ At(text, q) = "-" THEN 1 ELSE 0
             nd   == AtMost(Run(text, q + sign, Digits), 10)
             q2   == IF nd >= 1 THEN q + sign + nd ELSE q
             q3   == IF q2 < Len(text) /\ At(text, q2) = " " THEN q2 + 1 ELSE q2
             arg  == RtfArg(text, q, sign, nd)
             ign  == st.ignorable \/ word \in Destinations
             s1   == [st EXCEPT !.curskip = 0, !.ignorable = ign]
         IN  IF ign THEN RtfAt(q3, s1, out)
             ELSE IF SpecialWordText(word) /= <<>>
             THEN RtfAt(q3, s1, out \o SpecialWordText(word))
             ELSE IF word = <<"u", "c">>
             THEN IF ~arg.given THEN RtfEnd(RtfRaise("TypeError"))
                  ELSE RtfAt(q3,
                             [s1 EXCEPT !.ucskip =
                                 IF arg.neg THEN 0
                                 ELSE IF arg.small THEN AtMost(arg.val, Len(text))
                                 ELSE Len(text)],
                             out)
             ELSE IF word = <<"u">>
             THEN IF ~arg.given
                  THEN RtfAt(q3, [s1 EXCEPT !.curskip = st.ucskip], out)
                  ELSE IF UnicodeChar(arg).kind /= "str" THEN RtfEnd(UnicodeChar(arg))
                  ELSE RtfAt(q3, [s1 EXCEPT !.curskip = st.ucskip],
                             out \o UnicodeChar(arg).text)
             ELSE RtfAt(q3, s1, out)
    ELSE IF IsHexEscape(text, p)
    THEN \* a skipped one counts down curskip; else its byte is kept
         IF st.curskip > 0
         THEN RtfAt(p + 4, [st EXCEPT !.curskip = st.curskip - 1], out)
         ELSE IF st.ignorable THEN RtfAt(p + 4, st, out)
         ELSE RtfAt(p + 4,
                    [st EXCEPT !.hexes = Append(st.hexes,
                         16 * RtfHexVal(At(text, p + 2)) + RtfHexVal(At(text, p + 3)))],
                    out)
    ELSE IF At(text, p) = BS /\ p + 1 < Len(text)
    THEN \* control symbol; \* makes the group ignorable
         LET ch == At(text, p + 1)
         IN  RtfAt(p + 2,
                   [st EXCEPT !.curskip = 0,
                              !.ignorable = st.ignorable
                                               \/ (ch = "*" /\ SpecialCharText(ch) = <<>>)],
                   IF st.ignorable THEN out ELSE out \o SpecialCharText(ch))
    ELSE IF At(text, p) = "{"
    THEN RtfAt(p + 1,
               [st EXCEPT !.curskip = 0,
                          !.stack = Append(st.stack, [ucskip |-> st.ucskip,
                                                       ignorable |-> st.ignorable])],
               out)
    ELSE IF At(text, p) = "}"
    THEN IF Len(st.stack) = 0
         THEN RtfAt(p + 1,
                    [st EXCEPT !.curskip = 0, !.ucskip = 0, !.ignorable = TRUE], out)
         ELSE RtfAt(p + 1,
                    [st EXCEPT !.curskip = 0,
                               !.stack = SubSeq(st.stack, 1, Len(st.stack) - 1),
                               !.ucskip = st.stack[Len(st.stack)].ucskip,
                               !.ignorable = st.stack[Len(st.stack)].ignorable],
                    out)
    ELSE IF At(text, p) \in {"\n", "\r"}
    THEN RtfAt(p + Run(text, p, {"\n", "\r"}), st, out)
    ELSE IF st.curskip > 0
    THEN \* a plain character that \u makes the loop skip
         RtfAt(p + 1, [st EXCEPT !.curskip = st.curskip - 1], out)
    ELSE \* plain characters, each a token of its own: the run up to the next
         \* backslash, brace or line break (a backslash that ends the text is
         \* a plain character)
         LET n == IF At(text, p) = BS THEN 1
                  ELSE RunNot(text, p, {BS, "{", "}", "\n", "\r"})
         IN  RtfAt(p + n, st,
                   IF st.ignorable THEN out ELSE out \o Slice(text, p, p + n))

\* The least k with 2^k >= n
RECURSIVE Doublings(_)
Doublings(n) == IF n <= 1 THEN 0 ELSE 1 + Doublings((n + 1) \div 2)

\* The loop over the tokens: up to 2^k passes from s on, none after the
\* loop has ended
RECURSIVE rtf_scan(_, _, _)
rtf_scan(text, s, k) ==
    IF s.kind /= "go" THEN s
    ELSE IF k = 0 THEN rtf_token(text, s)
    ELSE Only({rtf_scan(text, half, k - 1) : half \in {rtf_scan(text, s, k - 1)}})

\* Every pass but the decoding of pending bytes moves on in the text, so
\* the loop ends within 2 * len(text) + 1 passes.  (The text is evaluated
\* once.)
rtf_to_text(text) ==
    Only({ [kind |-> s.kind, text |-> s.out] :
             s \in { rtf_scan(t, RtfAt(0, RtfStart, <<>>), Doublings(2 * Len(t) + 2)) :
                        t \in {text} } })

----------------------------------------------------------------------------
(* output_txt_script, lines 245-298: the scan over the cleaned text *)

RGB_BLACK == <<"R", "G", "B", "(", "0", ",", "0", ",", "0", ")">>

\* lines 247-251
default_name(tm) == IF TagmapHas(tm, RGB_BLACK) THEN TagmapGet(tm, RGB_BLACK) ELSE <<>>

\* Offsets where tag_pat = '\x00cf(\d+)' matches
TagStarts(txt) ==
    {q \in 0..(Len(txt) - 4) :
        StartsAt(txt, q, <<marker_char_used, "c", "f">>) /\ Run(txt, q + 3, Digits) >= 1}

RECURSIVE Ascending(_)
Ascending(S) ==
    IF S = {} THEN <<>> ELSE <<Min(S)>> \o Ascending(S \ {Min(S)})

\* list(re.finditer(tag_pat, clean_txt)): start() and len(group()) of each match
color_place_iter(txt) ==
    LET starts == Ascending(TagStarts(txt))
    IN  [k \in 1..Len(starts) |->
            [start |-> starts[k], len |-> 3 + Run(txt, starts[k] + 3, Digits)]]

\* lines 261-264: the text before the tag, without the space that ended
\* the previous control sequence
span_txt(txt, from, tag_start) ==
    IF At(txt, from) = " "
    THEN Slice(txt, from + 1, tag_start)
    ELSE Slice(txt, from, tag_start)

\* line 271: cur_name = tags_info[i]['name'], after a span of length zero
name_after_skip(infos, n, cur) == infos[n + 1].name

\* line 281: cur_name = tags_info[i]['name'], after a span was written out
name_after_emit(infos, n, cur) == infos[n + 1].name

\* line 280: jsonl_obj = {cur_name : txt}
jsonl_obj(cur, txt) == [name |-> cur, txt |-> txt]

\* line 267: a span of length zero is not written out
is_skipped(txt) == Len(txt) = 0

\* lines 289-292: the text after the last tag
last_txt(txt, from) ==
    IF At(txt, from) = " " THEN SliceFrom(txt, from + 1) ELSE SliceFrom(txt, from)

----------------------------------------------------------------------------
(* validate_rgb_string *)

\* regex class \s of a str pattern (line 585)
Whitespace == {
    "\t", "\n", "U+000B", "\f", "\r", "U+001C", "U+001D", "U+001E", "U+001F",
    " ", "U+0085", "U+00A0", "U+1680", "U+2000", "U+2001", "U+2002", "U+2003",
    "U+2004", "U+2005", "U+2006", "U+2007", "U+2008", "U+2009", "U+200A",
    "U+2028", "U+2029", "U+202F", "U+205F", "U+3000"}

\* The largest value of an RGB component (line 603)
RgbMax == 255

\* Mutant of in_rgb_range: the upper limit is not checked
in_rgb_range_no_upper(v) == 0 <= v

\* line 603: 0 <= v <= 255
in_rgb_range(v) == 0 <= v /\ v <= RgbMax

\* '$': the end of the string, or just before a final newline
AtEnd(s, p) == p = Len(s) \/ (p = Len(s) - 1 /\ At(s, p) = "\n")

\* The pattern of line 585 after its prefix RGB\( : blanks, a group of
\* digits, blanks and a literal character, three times
RgbPattern ==
    <<"s*", "d+", "s*", ",", "s*", "d+", "s*", ",", "s*", "d+", "s*", ")">>

no_rgb_match == [matched |-> FALSE, r_str |-> <<>>, g_str |-> <<>>, b_str |-> <<>>]

\* The match of the items of RgbPattern from the k-th on at offset p, with
\* the groups matched so far.  Blanks, digits and the literal characters are
\* disjoint classes, so the greedy match is the only one.
RECURSIVE rgb_scan(_, _, _, _)
rgb_scan(s, p, k, groups) ==
    IF k > Len(RgbPattern)
    THEN IF AtEnd(s, p)
         THEN [matched |-> TRUE, r_str |-> groups[1], g_str |-> groups[2],
               b_str |-> groups[3]]
         ELSE no_rgb_match
    ELSE IF RgbPattern[k] = "s*"
    THEN rgb_scan(s, p + Run(s, p, Whitespace), k + 1, groups)
    ELSE IF RgbPattern[k] = "d+"
    THEN IF Run(s, p, Digits) >= 1
         THEN rgb_scan(s, p + Run(s, p, Digits), k + 1,
                       Append(groups, Slice(s, p, p + Run(s, p, Digits))))
         ELSE no_rgb_match
    ELSE IF StartsAt(s, p, <<RgbPattern[k]>>)
    THEN rgb_scan(s, p + 1, k + 1, groups)
    ELSE no_rgb_match

\* re.match(r"^RGB\(\s*(\d+)\s*,\s*(\d+)\s*,\s*(\d+)\s*\)$", s): the three
\* digit groups, or no match
rgb_match(s) ==
    IF StartsAt(s, 0, <<"R", "G", "B", "(">>) THEN rgb_scan(s, 4, 1, <<>>)
    ELSE no_rgb_match

\* Returns True or raises ValueError
validate_rgb_string(rgb_string) ==
    LET match == rgb_match(rgb_string)
    IN  IF ~match.matched THEN "ValueError"
        ELSE IF \E ds \in {match.r_str, match.g_str, match.b_str} : int_raises(ds)
        THEN \* lines 598-600
             "ValueError"
        ELSE IF \A ds \in {match.r_str, match.g_str, match.b_str} :
                   IsSmall(ds) /\ in_rgb_range(int(ds))
             THEN "True"
             ELSE "ValueError"

----------------------------------------------------------------------------
(* validate_rgb_hex_string *)

\* regex class [0-9a-fA-F] (line 631): ASCII digits only
HexDigits ==
    {DigitRows[1][k] : k \in 1..10}
        \cup {"a", "b", "c", "d", "e", "f", "A", "B", "C", "D", "E", "F"}

\* re.match(r"^#[0-9a-fA-F]{6}$", hex_string)
validate_rgb_hex_string(hex_string) ==
    IF /\ StartsAt(hex_string, 0, <<"#">>)
       /\ Run(hex_string, 1, HexDigits) >= 6
       /\ AtEnd(hex_string, 7)
    THEN "True"
    ELSE "ValueError"

----------------------------------------------------------------------------
(* check_tagmap *)

\* The characters str.upper() changes, each with what it becomes: one to
\* three characters (U+00DF becomes SS, U+FB00 becomes FF).  Every other
\* character is left as it is.
UpperPairs == <<
    <<"a", <<"A">>>>, <<"b", <<"B">>>>, <<"c", <<"C">>>>, <<"d", <<"D">>>>,
    <<"e", <<"E">>>>, <<"f", <<"F">>>>, <<"g", <<"G">>>>, <<"h", <<"H">>>>,
    <<"i", <<"I">>>>, <<"j", <<"J">>>>, <<"k", <<"K">>>>, <<"l", <<"L">>>>,
    <<"m", <<"M">>>>, <<"n", <<"N">>>>, <<"o", <<"O">>>>, <<"p", <<"P">>>>,
    <<"q", <<"Q">>>>, <<"r", <<"R">>>>, <<"s", <<"S">>>>, <<"t", <<"T">>>>,
    <<"u", <<"U">>>>, <<"v", <<"V">>>>, <<"w", <<"W">>>>, <<"x", <<"X">>>>,
    <<"y", <<"Y">>>>, <<"z", <<"Z">>>>, <<"U+00B5", <<"U+039C">>>>,
    <<"U+00DF", <<"S", "S">>>>, <<"U+00E0", <<"U+00C0">>>>,
    <<"U+00E1", <<"U+00C1">>>>, <<"U+00E2", <<"U+00C2">>>>,
    <<"U+00E3", <<"U+00C3">>>>, <<"U+00E4", <<"U+00C4">>>>,
    <<"U+00E5", <<"U+00C5">>>>, <<"U+00E6", <<"U+00C6">>>>,
    <<"U+00E7", <<"U+00C7">>>>, <<"U+00E8", <<"U+00C8">>>>,
    <<"U+00E9", <<"U+00C9">>>>, <<"U+00EA", <<"U+00CA">>>>,
    <<"U+00EB", <<"U+00CB">>>>, <<"U+00EC", <<"U+00CC">>>>,
    <<"U+00ED", <<"U+00CD">>>>, <<"U+00EE", <<"U+00CE">>>>,
    <<"U+00EF", <<"U+00CF">>>>, <<"U+00F0", <<"U+00D0">>>>,
    <<"U+00F1", <<"U+00D1">>>>, <<"U+00F2", <<"U+00D2">>>>,
    <<"U+00F3", <<"U+00D3">>>>, <<"U+00F4", <<"U+00D4">>>>,
    <<"U+00F5", <<"U+00D5">>>>, <<"U+00F6", <<"U+00D6">>>>,
    <<"U+00F8", <<"U+00D8">>>>, <<"U+00F9", <<"U+00D9">>>>,
    <<"U+00FA", <<"U+00DA">>>>, <<"U+00FB", <<"U+00DB">>>>,
    <<"U+00FC", <<"U+00DC">>>>, <<"U+00FD", <<"U+00DD">>>>,
    <<"U+00FE", <<"U+00DE">>>>, <<"U+00FF", <<"U+0178">>>>,
    <<"U+0101", <<"U+0100">>>>, <<"U+0103", <<"U+0102">>>>,
    <<"U+0105", <<"U+0104">>>>, <<"U+0107", <<"U+0106">>>>,
    <<"U+0109", <<"U+0108">>>>, <<"U+010B", <<"U+010A">>>>,
    <<"U+010D", <<"U+010C">>>>, <<"U+010F", <<"U+010E">>>>,
    <<"U+0111", <<"U+0110">>>>, <<"U+0113", <<"U+0112">>>>,
    <<"U+0115", <<"U+0114">>>>, <<"U+0117", <<"U+0116">>>>,
    <<"U+0119", <<"U+0118">>>>, <<"U+011B", <<"U+011A">>>>,
    <<"U+011D", <<"U+011C">>>>, <<"U+011F", <<"U+011E">>>>,
    <<"U+0121", <<"U+0120">>>>, <<"U+0123", <<"U+0122">>>>,
    <<"U+0125", <<"U+0124">>>>, <<"U+0127", <<"U+0126">>>>,
    <<"U+0129", <<"U+0128">>>>, <<"U+012B", <<"U+012A">>>>,
    <<"U+012D", <<"U+012C">>>>, <<"U+012F", <<"U+012E">>>>,
    <<"U+0131", <<"I">>>>, <<"U+0133", <<"U+0132">>>>,
    <<"U+0135", <<"U+0134">>>>, <<"U+0137", <<"U+0136">>>>,
    <<"U+013A", <<"U+0139">>>>, <<"U+013C", <<"U+013B">>>>,
    <<"U+013E", <<"U+013D">>>>, <<"U+0140", <<"U+013F">>>>,
    <<"U+0142", <<"U+0141">>>>, <<"U+0144", <<"U+0143">>>>,
    <<"U+0146", <<"U+0145">>>>, <<"U+0148", <<"U+0147">>>>,
    <<"U+0149", <<"U+02BC", "N">>>>, <<"U+014B", <<"U+014A">>>>,
    <<"U+014D", <<"U+014C">>>>, <<"U+014F", <<"U+014E">>>>,
    <<"U+0151", <<"U+0150">>>>, <<"U+0153", <<"U+0152">>>>,
    <<"U+0155", <<"U+0154">>>>, <<"U+0157", <<"U+0156">>>>,
    <<"U+0159", <<"U+0158">>>>, <<"U+015B", <<"U+015A">>>>,
    <<"U+015D", <<"U+015C">>>>, <<"U+015F", <<"U+015E">>>>,
    <<"U+0161", <<"U+0160">>>>, <<"U+0163", <<"U+0162">>>>,
    <<"U+0165", <<"U+0164">>>>, <<"U+0167", <<"U+0166">>>>,
    <<"U+0169", <<"U+0168">>>>, <<"U+016B", <<"U+016A">>>>,
    <<"U+016D", <<"U+016C">>>>, <<"U+016F", <<"U+016E">>>>,
    <<"U+0171", <<"U+0170">>>>, <<"U+0173", <<"U+0172">>>>,
    <<"U+0175", <<"U+0174">>>>, <<"U+0177", <<"U+0176">>>>,
    <<"U+017A", <<"U+0179">>>>, <<"U+017C", <<"U+017B">>>>,
    <<"U+017E", <<"U+017D">>>>, <<"U+017F", <<"S">>>>,
    <<"U+0180", <<"U+0243">>>>, <<"U+0183", <<"U+0182">>>>,
    <<"U+0185", <<"U+0184">>>>, <<"U+0188", <<"U+0187">>>>,
    <<"U+018C", <<"U+018B">>>>, <<"U+0192", <<"U+0191">>>>,
    <<"U+0195", <<"U+01F6">>>>, <<"U+0199", <<"U+0198">>>>,
    <<"U+019A", <<"U+023D">>>>, <<"U+019E", <<"U+0220">>>>,
    <<"U+01A1", <<"U+01A0">>>>, <<"U+01A3", <<"U+01A2">>>>,
    <<"U+01A5", <<"U+01A4">>>>, <<"U+01A8", <<"U+01A7">>>>,
    <<"U+01AD", <<"U+01AC">>>>, <<"U+01B0", <<"U+01AF">>>>,
    <<"U+01B4", <<"U+01B3">>>>, <<"U+01B6", <<"U+01B5">>>>,
    <<"U+01B9", <<"U+01B8">>>>, <<"U+01BD", <<"U+01BC">>>>,
    <<"U+01BF", <<"U+01F7">>>>, <<"U+01C5", <<"U+01C4">>>>,
    <<"U+01C6", <<"U+01C4">>>>, <<"U+01C8", <<"U+01C7">>>>,
    <<"U+01C9", <<"U+01C7">>>>, <<"U+01CB", <<"U+01CA">>>>,
    <<"U+01CC", <<"U+01CA">>>>, <<"U+01CE", <<"U+01CD">>>>,
    <<"U+01D0", <<"U+01CF">>>>, <<"U+01D2", <<"U+01D1">>>>,
    <<"U+01D4", <<"U+01D3">>>>, <<"U+01D6", <<"U+01D5">>>>,
    <<"U+01D8", <<"U+01D7">>>>, <<"U+01DA", <<"U+01D9">>>>,
    <<"U+01DC", <<"U+01DB">>>>, <<"U+01DD", <<"U+018E">>>>,
    <<"U+01DF", <<"U+01DE">>>>, <<"U+01E1", <<"U+01E0">>>>,
    <<"U+01E3", <<"U+01E2">>>>, <<"U+01E5", <<"U+01E4">>>>,
    <<"U+01E7", <<"U+01E6">>>>, <<"U+01E9", <<"U+01E8">>>>,
    <<"U+01EB", <<"U+01EA">>>>, <<"U+01ED", <<"U+01EC">>>>,
    <<"U+01EF", <<"U+01EE">>>>, <<"U+01F0", <<"J", "U+030C">>>>,
    <<"U+01F2", <<"U+01F1">>>>, <<"U+01F3", <<"U+01F1">>>>,
    <<"U+01F5", <<"U+01F4">>>>, <<"U+01F9", <<"U+01F8">>>>,
    <<"U+01FB", <<"U+01FA">>>>, <<"U+01FD", <<"U+01FC">>>>,
    <<"U+01FF", <<"U+01FE">>>>, <<"U+0201", <<"U+0200">>>>,
    <<"U+0203", <<"U+0202">>>>, <<"U+0205", <<"U+0204">>>>,
    <<"U+0207", <<"U+0206">>>>, <<"U+0209", <<"U+0208">>>>,
    <<"U+020B", <<"U+020A">>>>, <<"U+020D", <<"U+020C">>>>,
    <<"U+020F", <<"U+020E">>>>, <<"U+0211", <<"U+0210">>>>,
    <<"U+0213", <<"U+0212">>>>, <<"U+0215", <<"U+0214">>>>,
    <<"U+0217", <<"U+0216">>>>, <<"U+0219", <<"U+0218">>>>,
    <<"U+021B", <<"U+021A">>>>, <<"U+021D", <<"U+021C">>>>,
    <<"U+021F", <<"U+021E">>>>, <<"U+0223", <<"U+0222">>>>,
    <<"U+0225", <<"U+0224">>>>, <<"U+0227", <<"U+0226">>>>,
    <<"U+0229", <<"U+0228">>>>, <<"U+022B", <<"U+022A">>>>,
    <<"U+022D", <<"U+022C">>>>, <<"U+022F", <<"U+022E">>>>,
    <<"U+0231", <<"U+0230">>>>, <<"U+0233", <<"U+0232">>>>,
    <<"U+023C", <<"U+023B">>>>, <<"U+023F", <<"U+2C7E">>>>,
    <<"U+0240", <<"U+2C7F">>>>, <<"U+0242", <<"U+0241">>>>,
    <<"U+0247", <<"U+0246">>>>, <<"U+0249", <<"U+0248">>>>,
    <<"U+024B", <<"U+024A">>>>, <<"U+024D", <<"U+024C">>>>,
    <<"U+024F", <<"U+024E">>>>, <<"U+0250", <<"U+2C6F">>>>,
    <<"U+0251", <<"U+2C6D">>>>, <<"U+0252", <<"U+2C70">>>>,
    <<"U+0253", <<"U+0181">>>>, <<"U+0254", <<"U+0186">>>>,
    <<"U+0256", <<"U+0189">>>>, <<"U+0257", <<"U+018A">>>>,
    <<"U+0259", <<"U+018F">>>>, <<"U+025B", <<"U+0190">>>>,
    <<"U+025C", <<"U+A7AB">>>>, <<"U+0260", <<"U+0193">>>>,
    <<"U+0261", <<"U+A7AC">>>>, <<"U+0263", <<"U+0194">>>>,
    <<"U+0265", <<"U+A78D">>>>, <<"U+0266", <<"U+A7AA">>>>,
    <<"U+0268", <<"U+0197">>>>, <<"U+0269", <<"U+0196">>>>,
    <<"U+026A", <<"U+A7AE">>>>, <<"U+026B", <<"U+2C62">>>>,
    <<"U+026C", <<"U+A7AD">>>>, <<"U+026F", <<"U+019C">>>>,
    <<"U+0271", <<"U+2C6E">>>>, <<"U+0272", <<"U+019D">>>>,
    <<"U+0275", <<"U+019F">>>>, <<"U+027D", <<"U+2C64">>>>,
    <<"U+0280", <<"U+01A6">>>>, <<"U+0282", <<"U+A7C5">>>>,
    <<"U+0283", <<"U+01A9">>>>, <<"U+0287", <<"U+A7B1">>>>,
    <<"U+0288", <<"U+01AE">>>>, <<"U+0289", <<"U+0244">>>>,
    <<"U+028A", <<"U+01B1">>>>, <<"U+028B", <<"U+01B2">>>>,
    <<"U+028C", <<"U+0245">>>>, <<"U+0292", <<"U+01B7">>>>,
    <<"U+029D", <<"U+A7B2">>>>, <<"U+029E", <<"U+A7B0">>>>,
    <<"U+0345", <<"U+0399">>>>, <<"U+0371", <<"U+0370">>>>,
    <<"U+0373", <<"U+0372">>>>, <<"U+0377", <<"U+0376">>>>,
    <<"U+037B", <<"U+03FD">>>>, <<"U+037C", <<"U+03FE">>>>,
    <<"U+037D", <<"U+03FF">>>>,
    <<"U+0390", <<"U+0399", "U+0308", "U+0301">>>>,
    <<"U+03AC", <<"U+0386">>>>, <<"U+03AD", <<"U+0388">>>>,
    <<"U+03AE", <<"U+0389">>>>, <<"U+03AF", <<"U+038A">>>>,
    <<"U+03B0", <<"U+03A5", "U+0308", "U+0301">>>>,
    <<"U+03B1", <<"U+0391">>>>, <<"U+03B2", <<"U+0392">>>>,
    <<"U+03B3", <<"U+0393">>>>, <<"U+03B4", <<"U+0394">>>>,
    <<"U+03B5", <<"U+0395">>>>, <<"U+03B6", <<"U+0396">>>>,
    <<"U+03B7", <<"U+0397">>>>, <<"U+03B8", <<"U+0398">>>>,
    <<"U+03B9", <<"U+0399">>>>, <<"U+03BA", <<"U+039A">>>>,
    <<"U+03BB", <<"U+039B">>>>, <<"U+03BC", <<"U+039C">>>>,
    <<"U+03BD", <<"U+039D">>>>, <<"U+03BE", <<"U+039E">>>>,
    <<"U+03BF", <<"U+039F">>>>, <<"U+03C0", <<"U+03A0">>>>,
    <<"U+03C1", <<"U+03A1">>>>, <<"U+03C2", <<"U+03A3">>>>,
    <<"U+03C3", <<"U+03A3">>>>, <<"U+03C4", <<"U+03A4">>>>,
    <<"U+03C5", <<"U+03A5">>>>, <<"U+03C6", <<"U+03A6">>>>,
    <<"U+03C7", <<"U+03A7">>>>, <<"U+03C8", <<"U+03A8">>>>,
    <<"U+03C9", <<"U+03A9">>>>, <<"U+03CA", <<"U+03AA">>>>,
    <<"U+03CB", <<"U+03AB">>>>, <<"U+03CC", <<"U+038C">>>>,
    <<"U+03CD", <<"U+038E">>>>, <<"U+03CE", <<"U+038F">>>>,
    <<"U+03D0", <<"U+0392">>>>, <<"U+03D1", <<"U+0398">>>>,
    <<"U+03D5", <<"U+03A6">>>>, <<"U+03D6", <<"U+03A0">>>>,
    <<"U+03D7", <<"U+03CF">>>>, <<"U+03D9", <<"U+03D8">>>>,
    <<"U+03DB", <<"U+03DA">>>>, <<"U+03DD", <<"U+03DC">>>>,
    <<"U+03DF", <<"U+03DE">>>>, <<"U+03E1", <<"U+03E0">>>>,
    <<"U+03E3", <<"U+03E2">>>>, <<"U+03E5", <<"U+03E4">>>>,
    <<"U+03E7", <<"U+03E6">>>>, <<"U+03E9", <<"U+03E8">>>>,
    <<"U+03EB", <<"U+03EA">>>>, <<"U+03ED", <<"U+03EC">>>>,
    <<"U+03EF", <<"U+03EE">>>>, <<"U+03F0", <<"U+039A">>>>,
    <<"U+03F1", <<"U+03A1">>>>, <<"U+03F2", <<"U+03F9">>>>,
    <<"U+03F3", <<"U+037F">>>>, <<"U+03F5", <<"U+0395">>>>,
    <<"U+03F8", <<"U+03F7">>>>, <<"U+03FB", <<"U+03FA">>>>,
    <<"U+0430", <<"U+0410">>>>, <<"U+0431", <<"U+0411">>>>,
    <<"U+0432", <<"U+0412">>>>, <<"U+0433", <<"U+0413">>>>,
    <<"U+0434", <<"U+0414">>>>, <<"U+0435", <<"U+0415">>>>,
    <<"U+0436", <<"U+0416">>>>, <<"U+0437", <<"U+0417">>>>,
    <<"U+0438", <<"U+0418">>>>, <<"U+0439", <<"U+0419">>>>,
    <<"U+043A", <<"U+041A">>>>, <<"U+043B", <<"U+041B">>>>,
    <<"U+043C", <<"U+041C">>>>, <<"U+043D", <<"U+041D">>>>,
    <<"U+043E", <<"U+041E">>>>, <<"U+043F", <<"U+041F">>>>,
    <<"U+0440", <<"U+0420">>>>, <<"U+0441", <<"U+0421">>>>,
    <<"U+0442", <<"U+0422">>>>, <<"U+0443", <<"U+0423">>>>,
    <<"U+0444", <<"U+0424">>>>, <<"U+0445", <<"U+0425">>>>,
    <<"U+0446", <<"U+0426">>>>, <<"U+0447", <<"U+0427">>>>,
    <<"U+0448", <<"U+0428">>>>, <<"U+0449", <<"U+0429">>>>,
    <<"U+044A", <<"U+042A">>>>, <<"U+044B", <<"U+042B">>>>,
    <<"U+044C", <<"U+042C">>>>, <<"U+044D", <<"U+042D">>>>,
    <<"U+044E", <<"U+042E">>>>, <<"U+044F", <<"U+042F">>>>,
    <<"U+0450", <<"U+0400">>>>, <<"U+0451", <<"U+0401">>>>,
    <<"U+0452", <<"U+0402">>>>, <<"U+0453", <<"U+0403">>>>,
    <<"U+0454", <<"U+0404">>>>, <<"U+0455", <<"U+0405">>>>,
    <<"U+0456", <<"U+0406">>>>, <<"U+0457", <<"U+0407">>>>,
    <<"U+0458", <<"U+0408">>>>, <<"U+0459", <<"U+0409">>>>,
    <<"U+045A", <<"U+040A">>>>, <<"U+045B", <<"U+040B">>>>,
    <<"U+045C", <<"U+040C">>>>, <<"U+045D", <<"U+040D">>>>,
    <<"U+045E", <<"U+040E">>>>, <<"U+045F", <<"U+040F">>>>,
    <<"U+0461", <<"U+0460">>>>, <<"U+0463", <<"U+0462">>>>,
    <<"U+0465", <<"U+0464">>>>, <<"U+0467", <<"U+0466">>>>,
    <<"U+0469", <<"U+0468">>>>, <<"U+046B", <<"U+046A">>>>,
    <<"U+046D", <<"U+046C">>>>, <<"U+046F", <<"U+046E">>>>,
    <<"U+0471", <<"U+0470">>>>, <<"U+0473", <<"U+0472">>>>,
    <<"U+0475", <<"U+0474">>>>, <<"U+0477", <<"U+0476">>>>,
    <<"U+0479", <<"U+0478">>>>, <<"U+047B", <<"U+047A">>>>,
    <<"U+047D", <<"U+047C">>>>, <<"U+047F", <<"U+047E">>>>,
    <<"U+0481", <<"U+0480">>>>, <<"U+048B", <<"U+048A">>>>,
    <<"U+048D", <<"U+048C">>>>, <<"U+048F", <<"U+048E">>>>,
    <<"U+0491", <<"U+0490">>>>, <<"U+0493", <<"U+0492">>>>,
    <<"U+0495", <<"U+0494">>>>, <<"U+0497", <<"U+0496">>>>,
    <<"U+0499", <<"U+0498">>>>, <<"U+049B", <<"U+049A">>>>,
    <<"U+049D", <<"U+049C">>>>, <<"U+049F", <<"U+049E">>>>,
    <<"U+04A1", <<"U+04A0">>>>, <<"U+04A3", <<"U+04A2">>>>,
    <<"U+04A5", <<"U+04A4">>>>, <<"U+04A7", <<"U+04A6">>>>,
    <<"U+04A9", <<"U+04A8">>>>, <<"U+04AB", <<"U+04AA">>>>,
    <<"U+04AD", <<"U+04AC">>>>, <<"U+04AF", <<"U+04AE">>>>,
    <<"U+04B1", <<"U+04B0">>>>, <<"U+04B3", <<"U+04B2">>>>,
    <<"U+04B5", <<"U+04B4">>>>, <<"U+04B7", <<"U+04B6">>>>,
    <<"U+04B9", <<"U+04B8">>>>, <<"U+04BB", <<"U+04BA">>>>,
    <<"U+04BD", <<"U+04BC">>>>, <<"U+04BF", <<"U+04BE">>>>,
    <<"U+04C2", <<"U+04C1">>>>, <<"U+04C4", <<"U+04C3">>>>,
    <<"U+04C6", <<"U+04C5">>>>, <<"U+04C8", <<"U+04C7">>>>,
    <<"U+04CA", <<"U+04C9">>>>, <<"U+04CC", <<"U+04CB">>>>,
    <<"U+04CE", <<"U+04CD">>>>, <<"U+04CF", <<"U+04C0">>>>,
    <<"U+04D1", <<"U+04D0">>>>, <<"U+04D3", <<"U+04D2">>>>,
    <<"U+04D5", <<"U+04D4">>>>, <<"U+04D7", <<"U+04D6">>>>,
    <<"U+04D9", <<"U+04D8">>>>, <<"U+04DB", <<"U+04DA">>>>,
    <<"U+04DD", <<"U+04DC">>>>, <<"U+04DF", <<"U+04DE">>>>,
    <<"U+04E1", <<"U+04E0">>>>, <<"U+04E3", <<"U+04E2">>>>,
    <<"U+04E5", <<"U+04E4">>>>, <<"U+04E7", <<"U+04E6">>>>,
    <<"U+04E9", <<"U+04E8">>>>, <<"U+04EB", <<"U+04EA">>>>,
    <<"U+04ED", <<"U+04EC">>>>, <<"U+04EF", <<"U+04EE">>>>,
    <<"U+04F1", <<"U+04F0">>>>, <<"U+04F3", <<"U+04F2">>>>,
    <<"U+04F5", <<"U+04F4">>>>, <<"U+04F7", <<"U+04F6">>>>,
    <<"U+04F9", <<"U+04F8">>>>, <<"U+04FB", <<"U+04FA">>>>,
    <<"U+04FD", <<"U+04FC">>>>, <<"U+04FF", <<"U+04FE">>>>,
    <<"U+0501", <<"U+0500">>>>, <<"U+0503", <<"U+0502">>>>,
    <<"U+0505", <<"U+0504">>>>, <<"U+0507", <<"U+0506">>>>,
    <<"U+0509", <<"U+0508">>>>, <<"U+050B", <<"U+050A">>>>,
    <<"U+050D", <<"U+050C">>>>, <<"U+050F", <<"U+050E">>>>,
    <<"U+0511", <<"U+0510">>>>, <<"U+0513", <<"U+0512">>>>,
    <<"U+0515", <<"U+0514">>>>, <<"U+0517", <<"U+0516">>>>,
    <<"U+0519", <<"U+0518">>>>, <<"U+051B", <<"U+051A">>>>,
    <<"U+051D", <<"U+051C">>>>, <<"U+051F", <<"U+051E">>>>,
    <<"U+0521", <<"U+0520">>>>, <<"U+0523", <<"U+0522">>>>,
    <<"U+0525", <<"U+0524">>>>, <<"U+0527", <<"U+0526">>>>,
    <<"U+0529", <<"U+0528">>>>, <<"U+052B", <<"U+052A">>>>,
    <<"U+052D", <<"U+052C">>>>, <<"U+052F", <<"U+052E">>>>,
    <<"U+0561", <<"U+0531">>>>, <<"U+0562", <<"U+0532">>>>,
    <<"U+0563", <<"U+0533">>>>, <<"U+0564", <<"U+0534">>>>,
    <<"U+0565", <<"U+0535">>>>, <<"U+0566", <<"U+0536">>>>,
    <<"U+0567", <<"U+0537">>>>, <<"U+0568", <<"U+0538">>>>,
    <<"U+0569", <<"U+0539">>>>, <<"U+056A", <<"U+053A">>>>,
    <<"U+056B", <<"U+053B">>>>, <<"U+056C", <<"U+053C">>>>,
    <<"U+056D", <<"U+053D">>>>, <<"U+056E", <<"U+053E">>>>,
    <<"U+056F", <<"U+053F">>>>, <<"U+0570", <<"U+0540">>>>,
    <<"U+0571", <<"U+0541">>>>, <<"U+0572", <<"U+0542">>>>,
    <<"U+0573", <<"U+0543">>>>, <<"U+0574", <<"U+0544">>>>,
    <<"U+0575", <<"U+0545">>>>, <<"U+0576", <<"U+0546">>>>,
    <<"U+0577", <<"U+0547">>>>, <<"U+0578", <<"U+0548">>>>,
    <<"U+0579", <<"U+0549">>>>, <<"U+057A", <<"U+054A">>>>,
    <<"U+057B", <<"U+054B">>>>, <<"U+057C", <<"U+054C">>>>,
    <<"U+057D", <<"U+054D">>>>, <<"U+057E", <<"U+054E">>>>,
    <<"U+057F", <<"U+054F">>>>, <<"U+0580", <<"U+0550">>>>,
    <<"U+0581", <<"U+0551">>>>, <<"U+0582", <<"U+0552">>>>,
    <<"U+0583", <<"U+0553">>>>, <<"U+0584", <<"U+0554">>>>,
    <<"U+0585", <<"U+0555">>>>, <<"U+0586", <<"U+0556">>>>,
    <<"U+0587", <<"U+0535", "U+0552">>>>, <<"U+10D0", <<"U+1C90">>>>,
    <<"U+10D1", <<"U+1C91">>>>, <<"U+10D2", <<"U+1C92">>>>,
    <<"U+10D3", <<"U+1C93">>>>, <<"U+10D4", <<"U+1C94">>>>,
    <<"U+10D5", <<"U+1C95">>>>, <<"U+10D6", <<"U+1C96">>>>,
    <<"U+10D7", <<"U+1C97">>>>, <<"U+10D8", <<"U+1C98">>>>,
    <<"U+10D9", <<"U+1C99">>>>, <<"U+10DA", <<"U+1C9A">>>>,
    <<"U+10DB", <<"U+1C9B">>>>, <<"U+10DC", <<"U+1C9C">>>>,
    <<"U+10DD", <<"U+1C9D">>>>, <<"U+10DE", <<"U+1C9E">>>>,
    <<"U+10DF", <<"U+1C9F">>>>, <<"U+10E0", <<"U+1CA0">>>>,
    <<"U+10E1", <<"U+1CA1">>>>, <<"U+10E2", <<"U+1CA2">>>>,
    <<"U+10E3", <<"U+1CA3">>>>, <<"U+10E4", <<"U+1CA4">>>>,
    <<"U+10E5", <<"U+1CA5">>>>, <<"U+10E6", <<"U+1CA6">>>>,
    <<"U+10E7", <<"U+1CA7">>>>, <<"U+10E8", <<"U+1CA8">>>>,
    <<"U+10E9", <<"U+1CA9">>>>, <<"U+10EA", <<"U+1CAA">>>>,
    <<"U+10EB", <<"U+1CAB">>>>, <<"U+10EC", <<"U+1CAC">>>>,
    <<"U+10ED", <<"U+1CAD">>>>, <<"U+10EE", <<"U+1CAE">>>>,
    <<"U+10EF", <<"U+1CAF">>>>, <<"U+10F0", <<"U+1CB0">>>>,
    <<"U+10F1", <<"U+1CB1">>>>, <<"U+10F2", <<"U+1CB2">>>>,
    <<"U+10F3", <<"U+1CB3">>>>, <<"U+10F4", <<"U+1CB4">>>>,
    <<"U+10F5", <<"U+1CB5">>>>, <<"U+10F6", <<"U+1CB6">>>>,
    <<"U+10F7", <<"U+1CB7">>>>, <<"U+10F8", <<"U+1CB8">>>>,
    <<"U+10F9", <<"U+1CB9">>>>, <<"U+10FA", <<"U+1CBA">>>>,
    <<"U+10FD", <<"U+1CBD">>>>, <<"U+10FE", <<"U+1CBE">>>>,
    <<"U+10FF", <<"U+1CBF">>>>, <<"U+13F8", <<"U+13F0">>>>,
    <<"U+13F9", <<"U+13F1">>>>, <<"U+13FA", <<"U+13F2">>>>,
    <<"U+13FB", <<"U+13F3">>>>, <<"U+13FC", <<"U+13F4">>>>,
    <<"U+13FD", <<"U+13F5">>>>, <<"U+1C80", <<"U+0412">>>>,
    <<"U+1C81", <<"U+0414">>>>, <<"U+1C82", <<"U+041E">>>>,
    <<"U+1C83", <<"U+0421">>>>, <<"U+1C84", <<"U+0422">>>>,
    <<"U+1C85", <<"U+0422">>>>, <<"U+1C86", <<"U+042A">>>>,
    <<"U+1C87", <<"U+0462">>>>, <<"U+1C88", <<"U+A64A">>>>,
    <<"U+1D79", <<"U+A77D">>>>, <<"U+1D7D", <<"U+2C63">>>>,
    <<"U+1D8E", <<"U+A7C6">>>>, <<"U+1E01", <<"U+1E00">>>>,
    <<"U+1E03", <<"U+1E02">>>>, <<"U+1E05", <<"U+1E04">>>>,
    <<"U+1E07", <<"U+1E06">>>>, <<"U+1E09", <<"U+1E08">>>>,
    <<"U+1E0B", <<"U+1E0A">>>>, <<"U+1E0D", <<"U+1E0C">>>>,
    <<"U+1E0F", <<"U+1E0E">>>>, <<"U+1E11", <<"U+1E10">>>>,
    <<"U+1E13", <<"U+1E12">>>>, <<"U+1E15", <<"U+1E14">>>>,
    <<"U+1E17", <<"U+1E16">>>>, <<"U+1E19", <<"U+1E18">>>>,
    <<"U+1E1B", <<"U+1E1A">>>>, <<"U+1E1D", <<"U+1E1C">>>>,
    <<"U+1E1F", <<"U+1E1E">>>>, <<"U+1E21", <<"U+1E20">>>>,
    <<"U+1E23", <<"U+1E22">>>>, <<"U+1E25", <<"U+1E24">>>>,
    <<"U+1E27", <<"U+1E26">>>>, <<"U+1E29", <<"U+1E28">>>>,
    <<"U+1E2B", <<"U+1E2A">>>>, <<"U+1E2D", <<"U+1E2C">>>>,
    <<"U+1E2F", <<"U+1E2E">>>>, <<"U+1E31", <<"U+1E30">>>>,
    <<"U+1E33", <<"U+1E32">>>>, <<"U+1E35", <<"U+1E34">>>>,
    <<"U+1E37", <<"U+1E36">>>>, <<"U+1E39", <<"U+1E38">>>>,
    <<"U+1E3B", <<"U+1E3A">>>>, <<"U+1E3D", <<"U+1E3C">>>>,
    <<"U+1E3F", <<"U+1E3E">>>>, <<"U+1E41", <<"U+1E40">>>>,
    <<"U+1E43", <<"U+1E42">>>>, <<"U+1E45", <<"U+1E44">>>>,
    <<"U+1E47", <<"U+1E46">>>>, <<"U+1E49", <<"U+1E48">>>>,
    <<"U+1E4B", <<"U+1E4A">>>>, <<"U+1E4D", <<"U+1E4C">>>>,
    <<"U+1E4F", <<"U+1E4E">>>>, <<"U+1E51", <<"U+1E50">>>>,
    <<"U+1E53", <<"U+1E52">>>>, <<"U+1E55", <<"U+1E54">>>>,
    <<"U+1E57", <<"U+1E56">>>>, <<"U+1E59", <<"U+1E58">>>>,
    <<"U+1E5B", <<"U+1E5A">>>>, <<"U+1E5D", <<"U+1E5C">>>>,
    <<"U+1E5F", <<"U+1E5E">>>>, <<"U+1E61", <<"U+1E60">>>>,
    <<"U+1E63", <<"U+1E62">>>>, <<"U+1E65", <<"U+1E64">>>>,
    <<"U+1E67", <<"U+1E66">>>>, <<"U+1E69", <<"U+1E68">>>>,
    <<"U+1E6B", <<"U+1E6A">>>>, <<"U+1E6D", <<"U+1E6C">>>>,
    <<"U+1E6F", <<"U+1E6E">>>>, <<"U+1E71", <<"U+1E70">>>>,
    <<"U+1E73", <<"U+1E72">>>>, <<"U+1E75", <<"U+1E74">>>>,
    <<"U+1E77", <<"U+1E76">>>>, <<"U+1E79", <<"U+1E78">>>>,
    <<"U+1E7B", <<"U+1E7A">>>>, <<"U+1E7D", <<"U+1E7C">>>>,
    <<"U+1E7F", <<"U+1E7E">>>>, <<"U+1E81", <<"U+1E80">>>>,
    <<"U+1E83", <<"U+1E82">>>>, <<"U+1E85", <<"U+1E84">>>>,
    <<"U+1E87", <<"U+1E86">>>>, <<"U+1E89", <<"U+1E88">>>>,
    <<"U+1E8B", <<"U+1E8A">>>>, <<"U+1E8D", <<"U+1E8C">>>>,
    <<"U+1E8F", <<"U+1E8E">>>>, <<"U+1E91", <<"U+1E90">>>>,
    <<"U+1E93", <<"U+1E92">>>>, <<"U+1E95", <<"U+1E94">>>>,
    <<"U+1E96", <<"H", "U+0331">>>>, <<"U+1E97", <<"T", "U+0308">>>>,
    <<"U+1E98", <<"W", "U+030A">>>>, <<"U+1E99", <<"Y", "U+030A">>>>,
    <<"U+1E9A", <<"A", "U+02BE">>>>, <<"U+1E9B", <<"U+1E60">>>>,
    <<"U+1EA1", <<"U+1EA0">>>>, <<"U+1EA3", <<"U+1EA2">>>>,
    <<"U+1EA5", <<"U+1EA4">>>>, <<"U+1EA7", <<"U+1EA6">>>>,
    <<"U+1EA9", <<"U+1EA8">>>>, <<"U+1EAB", <<"U+1EAA">>>>,
    <<"U+1EAD", <<"U+1EAC">>>>, <<"U+1EAF", <<"U+1EAE">>>>,
    <<"U+1EB1", <<"U+1EB0">>>>, <<"U+1EB3", <<"U+1EB2">>>>,
    <<"U+1EB5", <<"U+1EB4">>>>, <<"U+1EB7", <<"U+1EB6">>>>,
    <<"U+1EB9", <<"U+1EB8">>>>, <<"U+1EBB", <<"U+1EBA">>>>,
    <<"U+1EBD", <<"U+1EBC">>>>, <<"U+1EBF", <<"U+1EBE">>>>,
    <<"U+1EC1", <<"U+1EC0">>>>, <<"U+1EC3", <<"U+1EC2">>>>,
    <<"U+1EC5", <<"U+1EC4">>>>, <<"U+1EC7", <<"U+1EC6">>>>,
    <<"U+1EC9", <<"U+1EC8">>>>, <<"U+1ECB", <<"U+1ECA">>>>,
    <<"U+1ECD", <<"U+1ECC">>>>, <<"U+1ECF", <<"U+1ECE">>>>,
    <<"U+1ED1", <<"U+1ED0">>>>, <<"U+1ED3", <<"U+1ED2">>>>,
    <<"U+1ED5", <<"U+1ED4">>>>, <<"U+1ED7", <<"U+1ED6">>>>,
    <<"U+1ED9", <<"U+1ED8">>>>, <<"U+1EDB", <<"U+1EDA">>>>,
    <<"U+1EDD", <<"U+1EDC">>>>, <<"U+1EDF", <<"U+1EDE">>>>,
    <<"U+1EE1", <<"U+1EE0">>>>, <<"U+1EE3", <<"U+1EE2">>>>,
    <<"U+1EE5", <<"U+1EE4">>>>, <<"U+1EE7", <<"U+1EE6">>>>,
    <<"U+1EE9", <<"U+1EE8">>>>, <<"U+1EEB", <<"U+1EEA">>>>,
    <<"U+1EED", <<"U+1EEC">>>>, <<"U+1EEF", <<"U+1EEE">>>>,
    <<"U+1EF1", <<"U+1EF0">>>>, <<"U+1EF3", <<"U+1EF2">>>>,
    <<"U+1EF5", <<"U+1EF4">>>>, <<"U+1EF7", <<"U+1EF6">>>>,
    <<"U+1EF9", <<"U+1EF8">>>>, <<"U+1EFB", <<"U+1EFA">>>>,
    <<"U+1EFD", <<"U+1EFC">>>>, <<"U+1EFF", <<"U+1EFE">>>>,
    <<"U+1F00", <<"U+1F08">>>>, <<"U+1F01", <<"U+1F09">>>>,
    <<"U+1F02", <<"U+1F0A">>>>, <<"U+1F03", <<"U+1F0B">>>>,
    <<"U+1F04", <<"U+1F0C">>>>, <<"U+1F05", <<"U+1F0D">>>>,
    <<"U+1F06", <<"U+1F0E">>>>, <<"U+1F07", <<"U+1F0F">>>>,
    <<"U+1F10", <<"U+1F18">>>>, <<"U+1F11", <<"U+1F19">>>>,
    <<"U+1F12", <<"U+1F1A">>>>, <<"U+1F13", <<"U+1F1B">>>>,
    <<"U+1F14", <<"U+1F1C">>>>, <<"U+1F15", <<"U+1F1D">>>>,
    <<"U+1F20", <<"U+1F28">>>>, <<"U+1F21", <<"U+1F29">>>>,
    <<"U+1F22", <<"U+1F2A">>>>, <<"U+1F23", <<"U+1F2B">>>>,
    <<"U+1F24", <<"U+1F2C">>>>, <<"U+1F25", <<"U+1F2D">>>>,
    <<"U+1F26", <<"U+1F2E">>>>, <<"U+1F27", <<"U+1F2F">>>>,
    <<"U+1F30", <<"U+1F38">>>>, <<"U+1F31", <<"U+1F39">>>>,
    <<"U+1F32", <<"U+1F3A">>>>, <<"U+1F33", <<"U+1F3B">>>>,
    <<"U+1F34", <<"U+1F3C">>>>, <<"U+1F35", <<"U+1F3D">>>>,
    <<"U+1F36", <<"U+1F3E">>>>, <<"U+1F37", <<"U+1F3F">>>>,
    <<"U+1F40", <<"U+1F48">>>>, <<"U+1F41", <<"U+1F49">>>>,
    <<"U+1F42", <<"U+1F4A">>>>, <<"U+1F43", <<"U+1F4B">>>>,
    <<"U+1F44", <<"U+1F4C">>>>, <<"U+1F45", <<"U+1F4D">>>>,
    <<"U+1F50", <<"U+03A5", "U+0313">>>>, <<"U+1F51", <<"U+1F59">>>>,
    <<"U+1F52", <<"U+03A5", "U+0313", "U+0300">>>>,
    <<"U+1F53", <<"U+1F5B">>>>,
    <<"U+1F54", <<"U+03A5", "U+0313", "U+0301">>>>,
    <<"U+1F55", <<"U+1F5D">>>>,
    <<"U+1F56", <<"U+03A5", "U+0313", "U+0342">>>>,
    <<"U+1F57", <<"U+1F5F">>>>, <<"U+1F60", <<"U+1F68">>>>,
    <<"U+1F61", <<"U+1F69">>>>, <<"U+1F62", <<"U+1F6A">>>>,
    <<"U+1F63", <<"U+1F6B">>>>, <<"U+1F64", <<"U+1F6C">>>>,
    <<"U+1F65", <<"U+1F6D">>>>, <<"U+1F66", <<"U+1F6E">>>>,
    <<"U+1F67", <<"U+1F6F">>>>, <<"U+1F70", <<"U+1FBA">>>>,
    <<"U+1F71", <<"U+1FBB">>>>, <<"U+1F72", <<"U+1FC8">>>>,
    <<"U+1F73", <<"U+1FC9">>>>, <<"U+1F74", <<"U+1FCA">>>>,
    <<"U+1F75", <<"U+1FCB">>>>, <<"U+1F76", <<"U+1FDA">>>>,
    <<"U+1F77", <<"U+1FDB">>>>, <<"U+1F78", <<"U+1FF8">>>>,
    <<"U+1F79", <<"U+1FF9">>>>, <<"U+1F7A", <<"U+1FEA">>>>,
    <<"U+1F7B", <<"U+1FEB">>>>, <<"U+1F7C", <<"U+1FFA">>>>,
    <<"U+1F7D", <<"U+1FFB">>>>, <<"U+1F80", <<"U+1F08", "U+0399">>>>,
    <<"U+1F81", <<"U+1F09", "U+0399">>>>,
    <<"U+1F82", <<"U+1F0A", "U+0399">>>>,
    <<"U+1F83", <<"U+1F0B", "U+0399">>>>,
    <<"U+1F84", <<"U+1F0C", "U+0399">>>>,
    <<"U+1F85", <<"U+1F0D", "U+0399">>>>,
    <<"U+1F86", <<"U+1F0E", "U+0399">>>>,
    <<"U+1F87", <<"U+1F0F", "U+0399">>>>,
    <<"U+1F88", <<"U+1F08", "U+0399">>>>,
    <<"U+1F89", <<"U+1F09", "U+0399">>>>,
    <<"U+1F8A", <<"U+1F0A", "U+0399">>>>,
    <<"U+1F8B", <<"U+1F0B", "U+0399">>>>,
    <<"U+1F8C", <<"U+1F0C", "U+0399">>>>,
    <<"U+1F8D", <<"U+1F0D", "U+0399">>>>,
    <<"U+1F8E", <<"U+1F0E", "U+0399">>>>,
    <<"U+1F8F", <<"U+1F0F", "U+0399">>>>,
    <<"U+1F90", <<"U+1F28", "U+0399">>>>,
    <<"U+1F91", <<"U+1F29", "U+0399">>>>,
    <<"U+1F92", <<"U+1F2A", "U+0399">>>>,
    <<"U+1F93", <<"U+1F2B", "U+0399">>>>,
    <<"U+1F94", <<"U+1F2C", "U+0399">>>>,
    <<"U+1F95", <<"U+1F2D", "U+0399">>>>,
    <<"U+1F96", <<"U+1F2E", "U+0399">>>>,
    <<"U+1F97", <<"U+1F2F", "U+0399">>>>,
    <<"U+1F98", <<"U+1F28", "U+0399">>>>,
    <<"U+1F99", <<"U+1F29", "U+0399">>>>,
    <<"U+1F9A", <<"U+1F2A", "U+0399">>>>,
    <<"U+1F9B", <<"U+1F2B", "U+0399">>>>,
    <<"U+1F9C", <<"U+1F2C", "U+0399">>>>,
    <<"U+1F9D", <<"U+1F2D", "U+0399">>>>,
    <<"U+1F9E", <<"U+1F2E", "U+0399">>>>,
    <<"U+1F9F", <<"U+1F2F", "U+0399">>>>,
    <<"U+1FA0", <<"U+1F68", "U+0399">>>>,
    <<"U+1FA1", <<"U+1F69", "U+0399">>>>,
    <<"U+1FA2", <<"U+1F6A", "U+0399">>>>,
    <<"U+1FA3", <<"U+1F6B", "U+0399">>>>,
    <<"U+1FA4", <<"U+1F6C", "U+0399">>>>,
    <<"U+1FA5", <<"U+1F6D", "U+0399">>>>,
    <<"U+1FA6", <<"U+1F6E", "U+0399">>>>,
    <<"U+1FA7", <<"U+1F6F", "U+0399">>>>,
    <<"U+1FA8", <<"U+1F68", "U+0399">>>>,
    <<"U+1FA9", <<"U+1F69", "U+0399">>>>,
    <<"U+1FAA", <<"U+1F6A", "U+0399">>>>,
    <<"U+1FAB", <<"U+1F6B", "U+0399">>>>,
    <<"U+1FAC", <<"U+1F6C", "U+0399">>>>,
    <<"U+1FAD", <<"U+1F6D", "U+0399">>>>,
    <<"U+1FAE", <<"U+1F6E", "U+0399">>>>,
    <<"U+1FAF", <<"U+1F6F", "U+0399">>>>, <<"U+1FB0", <<"U+1FB8">>>>,
    <<"U+1FB1", <<"U+1FB9">>>>, <<"U+1FB2", <<"U+1FBA", "U+0399">>>>,
    <<"U+1FB3", <<"U+0391", "U+0399">>>>,
    <<"U+1FB4", <<"U+0386", "U+0399">>>>,
    <<"U+1FB6", <<"U+0391", "U+0342">>>>,
    <<"U+1FB7", <<"U+0391", "U+0342", "U+0399">>>>,
    <<"U+1FBC", <<"U+0391", "U+0399">>>>, <<"U+1FBE", <<"U+0399">>>>,
    <<"U+1FC2", <<"U+1FCA", "U+0399">>>>,
    <<"U+1FC3", <<"U+0397", "U+0399">>>>,
    <<"U+1FC4", <<"U+0389", "U+0399">>>>,
    <<"U+1FC6", <<"U+0397", "U+0342">>>>,
    <<"U+1FC7", <<"U+0397", "U+0342", "U+0399">>>>,
    <<"U+1FCC", <<"U+0397", "U+0399">>>>, <<"U+1FD0", <<"U+1FD8">>>>,
    <<"U+1FD1", <<"U+1FD9">>>>,
    <<"U+1FD2", <<"U+0399", "U+0308", "U+0300">>>>,
    <<"U+1FD3", <<"U+0399", "U+0308", "U+0301">>>>,
    <<"U+1FD6", <<"U+0399", "U+0342">>>>,
    <<"U+1FD7", <<"U+0399", "U+0308", "U+0342">>>>,
    <<"U+1FE0", <<"U+1FE8">>>>, <<"U+1FE1", <<"U+1FE9">>>>,
    <<"U+1FE2", <<"U+03A5", "U+0308", "U+0300">>>>,
    <<"U+1FE3", <<"U+03A5", "U+0308", "U+0301">>>>,
    <<"U+1FE4", <<"U+03A1", "U+0313">>>>, <<"U+1FE5", <<"U+1FEC">>>>,
    <<"U+1FE6", <<"U+03A5", "U+0342">>>>,
    <<"U+1FE7", <<"U+03A5", "U+0308", "U+0342">>>>,
    <<"U+1FF2", <<"U+1FFA", "U+0399">>>>,
    <<"U+1FF3", <<"U+03A9", "U+0399">>>>,
    <<"U+1FF4", <<"U+038F", "U+0399">>>>,
    <<"U+1FF6", <<"U+03A9", "U+0342">>>>,
    <<"U+1FF7", <<"U+03A9", "U+0342", "U+0399">>>>,
    <<"U+1FFC", <<"U+03A9", "U+0399">>>>, <<"U+214E", <<"U+2132">>>>,
    <<"U+2170", <<"U+2160">>>>, <<"U+2171", <<"U+2161">>>>,
    <<"U+2172", <<"U+2162">>>>, <<"U+2173", <<"U+2163">>>>,
    <<"U+2174", <<"U+2164">>>>, <<"U+2175", <<"U+2165">>>>,
    <<"U+2176", <<"U+2166">>>>, <<"U+2177", <<"U+2167">>>>,
    <<"U+2178", <<"U+2168">>>>, <<"U+2179", <<"U+2169">>>>,
    <<"U+217A", <<"U+216A">>>>, <<"U+217B", <<"U+216B">>>>,
    <<"U+217C", <<"U+216C">>>>, <<"U+217D", <<"U+216D">>>>,
    <<"U+217E", <<"U+216E">>>>, <<"U+217F", <<"U+216F">>>>,
    <<"U+2184", <<"U+2183">>>>, <<"U+24D0", <<"U+24B6">>>>,
    <<"U+24D1", <<"U+24B7">>>>, <<"U+24D2", <<"U+24B8">>>>,
    <<"U+24D3", <<"U+24B9">>>>, <<"U+24D4", <<"U+24BA">>>>,
    <<"U+24D5", <<"U+24BB">>>>, <<"U+24D6", <<"U+24BC">>>>,
    <<"U+24D7", <<"U+24BD">>>>, <<"U+24D8", <<"U+24BE">>>>,
    <<"U+24D9", <<"U+24BF">>>>, <<"U+24DA", <<"U+24C0">>>>,
    <<"U+24DB", <<"U+24C1">>>>, <<"U+24DC", <<"U+24C2">>>>,
    <<"U+24DD", <<"U+24C3">>>>, <<"U+24DE", <<"U+24C4">>>>,
    <<"U+24DF", <<"U+24C5">>>>, <<"U+24E0", <<"U+24C6">>>>,
    <<"U+24E1", <<"U+24C7">>>>, <<"U+24E2", <<"U+24C8">>>>,
    <<"U+24E3", <<"U+24C9">>>>, <<"U+24E4", <<"U+24CA">>>>,
    <<"U+24E5", <<"U+24CB">>>>, <<"U+24E6", <<"U+24CC">>>>,
    <<"U+24E7", <<"U+24CD">>>>, <<"U+24E8", <<"U+24CE">>>>,
    <<"U+24E9", <<"U+24CF">>>>, <<"U+2C30", <<"U+2C00">>>>,
    <<"U+2C31", <<"U+2C01">>>>, <<"U+2C32", <<"U+2C02">>>>,
    <<"U+2C33", <<"U+2C03">>>>, <<"U+2C34", <<"U+2C04">>>>,
    <<"U+2C35", <<"U+2C05">>>>, <<"U+2C36", <<"U+2C06">>>>,
    <<"U+2C37", <<"U+2C07">>>>, <<"U+2C38", <<"U+2C08">>>>,
    <<"U+2C39", <<"U+2C09">>>>, <<"U+2C3A", <<"U+2C0A">>>>,
    <<"U+2C3B", <<"U+2C0B">>>>, <<"U+2C3C", <<"U+2C0C">>>>,
    <<"U+2C3D", <<"U+2C0D">>>>, <<"U+2C3E", <<"U+2C0E">>>>,
    <<"U+2C3F", <<"U+2C0F">>>>, <<"U+2C40", <<"U+2C10">>>>,
    <<"U+2C41", <<"U+2C11">>>>, <<"U+2C42", <<"U+2C12">>>>,
    <<"U+2C43", <<"U+2C13">>>>, <<"U+2C44", <<"U+2C14">>>>,
    <<"U+2C45", <<"U+2C15">>>>, <<"U+2C46", <<"U+2C16">>>>,
    <<"U+2C47", <<"U+2C17">>>>, <<"U+2C48", <<"U+2C18">>>>,
    <<"U+2C49", <<"U+2C19">>>>, <<"U+2C4A", <<"U+2C1A">>>>,
    <<"U+2C4B", <<"U+2C1B">>>>, <<"U+2C4C", <<"U+2C1C">>>>,
    <<"U+2C4D", <<"U+2C1D">>>>, <<"U+2C4E", <<"U+2C1E">>>>,
    <<"U+2C4F", <<"U+2C1F">>>>, <<"U+2C50", <<"U+2C20">>>>,
    <<"U+2C51", <<"U+2C21">>>>, <<"U+2C52", <<"U+2C22">>>>,
    <<"U+2C53", <<"U+2C23">>>>, <<"U+2C54", <<"U+2C24">>>>,
    <<"U+2C55", <<"U+2C25">>>>, <<"U+2C56", <<"U+2C26">>>>,
    <<"U+2C57", <<"U+2C27">>>>, <<"U+2C58", <<"U+2C28">>>>,
    <<"U+2C59", <<"U+2C29">>>>, <<"U+2C5A", <<"U+2C2A">>>>,
    <<"U+2C5B", <<"U+2C2B">>>>, <<"U+2C5C", <<"U+2C2C">>>>,
    <<"U+2C5D", <<"U+2C2D">>>>, <<"U+2C5E", <<"U+2C2E">>>>,
    <<"U+2C5F", <<"U+2C2F">>>>, <<"U+2C61", <<"U+2C60">>>>,
    <<"U+2C65", <<"U+023A">>>>, <<"U+2C66", <<"U+023E">>>>,
    <<"U+2C68", <<"U+2C67">>>>, <<"U+2C6A", <<"U+2C69">>>>,
    <<"U+2C6C", <<"U+2C6B">>>>, <<"U+2C73", <<"U+2C72">>>>,
    <<"U+2C76", <<"U+2C75">>>>, <<"U+2C81", <<"U+2C80">>>>,
    <<"U+2C83", <<"U+2C82">>>>, <<"U+2C85", <<"U+2C84">>>>,
    <<"U+2C87", <<"U+2C86">>>>, <<"U+2C89", <<"U+2C88">>>>,
    <<"U+2C8B", <<"U+2C8A">>>>, <<"U+2C8D", <<"U+2C8C">>>>,
    <<"U+2C8F", <<"U+2C8E">>>>, <<"U+2C91", <<"U+2C90">>>>,
    <<"U+2C93", <<"U+2C92">>>>, <<"U+2C95", <<"U+2C94">>>>,
    <<"U+2C97", <<"U+2C96">>>>, <<"U+2C99", <<"U+2C98">>>>,
    <<"U+2C9B", <<"U+2C9A">>>>, <<"U+2C9D", <<"U+2C9C">>>>,
    <<"U+2C9F", <<"U+2C9E">>>>, <<"U+2CA1", <<"U+2CA0">>>>,
    <<"U+2CA3", <<"U+2CA2">>>>, <<"U+2CA5", <<"U+2CA4">>>>,
    <<"U+2CA7", <<"U+2CA6">>>>, <<"U+2CA9", <<"U+2CA8">>>>,
    <<"U+2CAB", <<"U+2CAA">>>>, <<"U+2CAD", <<"U+2CAC">>>>,
    <<"U+2CAF", <<"U+2CAE">>>>, <<"U+2CB1", <<"U+2CB0">>>>,
    <<"U+2CB3", <<"U+2CB2">>>>, <<"U+2CB5", <<"U+2CB4">>>>,
    <<"U+2CB7", <<"U+2CB6">>>>, <<"U+2CB9", <<"U+2CB8">>>>,
    <<"U+2CBB", <<"U+2CBA">>>>, <<"U+2CBD", <<"U+2CBC">>>>,
    <<"U+2CBF", <<"U+2CBE">>>>, <<"U+2CC1", <<"U+2CC0">>>>,
    <<"U+2CC3", <<"U+2CC2">>>>, <<"U+2CC5", <<"U+2CC4">>>>,
    <<"U+2CC7", <<"U+2CC6">>>>, <<"U+2CC9", <<"U+2CC8">>>>,
    <<"U+2CCB", <<"U+2CCA">>>>, <<"U+2CCD", <<"U+2CCC">>>>,
    <<"U+2CCF", <<"U+2CCE">>>>, <<"U+2CD1", <<"U+2CD0">>>>,
    <<"U+2CD3", <<"U+2CD2">>>>, <<"U+2CD5", <<"U+2CD4">>>>,
    <<"U+2CD7", <<"U+2CD6">>>>, <<"U+2CD9", <<"U+2CD8">>>>,
    <<"U+2CDB", <<"U+2CDA">>>>, <<"U+2CDD", <<"U+2CDC">>>>,
    <<"U+2CDF", <<"U+2CDE">>>>, <<"U+2CE1", <<"U+2CE0">>>>,
    <<"U+2CE3", <<"U+2CE2">>>>, <<"U+2CEC", <<"U+2CEB">>>>,
    <<"U+2CEE", <<"U+2CED">>>>, <<"U+2CF3", <<"U+2CF2">>>>,
    <<"U+2D00", <<"U+10A0">>>>, <<"U+2D01", <<"U+10A1">>>>,
    <<"U+2D02", <<"U+10A2">>>>, <<"U+2D03", <<"U+10A3">>>>,
    <<"U+2D04", <<"U+10A4">>>>, <<"U+2D05", <<"U+10A5">>>>,
    <<"U+2D06", <<"U+10A6">>>>, <<"U+2D07", <<"U+10A7">>>>,
    <<"U+2D08", <<"U+10A8">>>>, <<"U+2D09", <<"U+10A9">>>>,
    <<"U+2D0A", <<"U+10AA">>>>, <<"U+2D0B", <<"U+10AB">>>>,
    <<"U+2D0C", <<"U+10AC">>>>, <<"U+2D0D", <<"U+10AD">>>>,
    <<"U+2D0E", <<"U+10AE">>>>, <<"U+2D0F", <<"U+10AF">>>>,
    <<"U+2D10", <<"U+10B0">>>>, <<"U+2D11", <<"U+10B1">>>>,
    <<"U+2D12", <<"U+10B2">>>>, <<"U+2D13", <<"U+10B3">>>>,
    <<"U+2D14", <<"U+10B4">>>>, <<"U+2D15", <<"U+10B5">>>>,
    <<"U+2D16", <<"U+10B6">>>>, <<"U+2D17", <<"U+10B7">>>>,
    <<"U+2D18", <<"U+10B8">>>>, <<"U+2D19", <<"U+10B9">>>>,
    <<"U+2D1A", <<"U+10BA">>>>, <<"U+2D1B", <<"U+10BB">>>>,
    <<"U+2D1C", <<"U+10BC">>>>, <<"U+2D1D", <<"U+10BD">>>>,
    <<"U+2D1E", <<"U+10BE">>>>, <<"U+2D1F", <<"U+10BF">>>>,
    <<"U+2D20", <<"U+10C0">>>>, <<"U+2D21", <<"U+10C1">>>>,
    <<"U+2D22", <<"U+10C2">>>>, <<"U+2D23", <<"U+10C3">>>>,
    <<"U+2D24", <<"U+10C4">>>>, <<"U+2D25", <<"U+10C5">>>>,
    <<"U+2D27", <<"U+10C7">>>>, <<"U+2D2D", <<"U+10CD">>>>,
    <<"U+A641", <<"U+A640">>>>, <<"U+A643", <<"U+A642">>>>,
    <<"U+A645", <<"U+A644">>>>, <<"U+A647", <<"U+A646">>>>,
    <<"U+A649", <<"U+A648">>>>, <<"U+A64B", <<"U+A64A">>>>,
    <<"U+A64D", <<"U+A64C">>>>, <<"U+A64F", <<"U+A64E">>>>,
    <<"U+A651", <<"U+A650">>>>, <<"U+A653", <<"U+A652">>>>,
    <<"U+A655", <<"U+A654">>>>, <<"U+A657", <<"U+A656">>>>,
    <<"U+A659", <<"U+A658">>>>, <<"U+A65B", <<"U+A65A">>>>,
    <<"U+A65D", <<"U+A65C">>>>, <<"U+A65F", <<"U+A65E">>>>,
    <<"U+A661", <<"U+A660">>>>, <<"U+A663", <<"U+A662">>>>,
    <<"U+A665", <<"U+A664">>>>, <<"U+A667", <<"U+A666">>>>,
    <<"U+A669", <<"U+A668">>>>, <<"U+A66B", <<"U+A66A">>>>,
    <<"U+A66D", <<"U+A66C">>>>, <<"U+A681", <<"U+A680">>>>,
    <<"U+A683", <<"U+A682">>>>, <<"U+A685", <<"U+A684">>>>,
    <<"U+A687", <<"U+A686">>>>, <<"U+A689", <<"U+A688">>>>,
    <<"U+A68B", <<"U+A68A">>>>, <<"U+A68D", <<"U+A68C">>>>,
    <<"U+A68F", <<"U+A68E">>>>, <<"U+A691", <<"U+A690">>>>,
    <<"U+A693", <<"U+A692">>>>, <<"U+A695", <<"U+A694">>>>,
    <<"U+A697", <<"U+A696">>>>, <<"U+A699", <<"U+A698">>>>,
    <<"U+A69B", <<"U+A69A">>>>, <<"U+A723", <<"U+A722">>>>,
    <<"U+A725", <<"U+A724">>>>, <<"U+A727", <<"U+A726">>>>,
    <<"U+A729", <<"U+A728">>>>, <<"U+A72B", <<"U+A72A">>>>,
    <<"U+A72D", <<"U+A72C">>>>, <<"U+A72F", <<"U+A72E">>>>,
    <<"U+A733", <<"U+A732">>>>, <<"U+A735", <<"U+A734">>>>,
    <<"U+A737", <<"U+A736">>>>, <<"U+A739", <<"U+A738">>>>,
    <<"U+A73B", <<"U+A73A">>>>, <<"U+A73D", <<"U+A73C">>>>,
    <<"U+A73F", <<"U+A73E">>>>, <<"U+A741", <<"U+A740">>>>,
    <<"U+A743", <<"U+A742">>>>, <<"U+A745", <<"U+A744">>>>,
    <<"U+A747", <<"U+A746">>>>, <<"U+A749", <<"U+A748">>>>,
    <<"U+A74B", <<"U+A74A">>>>, <<"U+A74D", <<"U+A74C">>>>,
    <<"U+A74F", <<"U+A74E">>>>, <<"U+A751", <<"U+A750">>>>,
    <<"U+A753", <<"U+A752">>>>, <<"U+A755", <<"U+A754">>>>,
    <<"U+A757", <<"U+A756">>>>, <<"U+A759", <<"U+A758">>>>,
    <<"U+A75B", <<"U+A75A">>>>, <<"U+A75D", <<"U+A75C">>>>,
    <<"U+A75F", <<"U+A75E">>>>, <<"U+A761", <<"U+A760">>>>,
    <<"U+A763", <<"U+A762">>>>, <<"U+A765", <<"U+A764">>>>,
    <<"U+A767", <<"U+A766">>>>, <<"U+A769", <<"U+A768">>>>,
    <<"U+A76B", <<"U+A76A">>>>, <<"U+A76D", <<"U+A76C">>>>,
    <<"U+A76F", <<"U+A76E">>>>, <<"U+A77A", <<"U+A779">>>>,
    <<"U+A77C", <<"U+A77B">>>>, <<"U+A77F", <<"U+A77E">>>>,
    <<"U+A781", <<"U+A780">>>>, <<"U+A783", <<"U+A782">>>>,
    <<"U+A785", <<"U+A784">>>>, <<"U+A787", <<"U+A786">>>>,
    <<"U+A78C", <<"U+A78B">>>>, <<"U+A791", <<"U+A790">>>>,
    <<"U+A793", <<"U+A792">>>>, <<"U+A794", <<"U+A7C4">>>>,
    <<"U+A797", <<"U+A796">>>>, <<"U+A799", <<"U+A798">>>>,
    <<"U+A79B", <<"U+A79A">>>>, <<"U+A79D", <<"U+A79C">>>>,
    <<"U+A79F", <<"U+A79E">>>>, <<"U+A7A1", <<"U+A7A0">>>>,
    <<"U+A7A3", <<"U+A7A2">>>>, <<"U+A7A5", <<"U+A7A4">>>>,
    <<"U+A7A7", <<"U+A7A6">>>>, <<"U+A7A9", <<"U+A7A8">>>>,
    <<"U+A7B5", <<"U+A7B4">>>>, <<"U+A7B7", <<"U+A7B6">>>>,
    <<"U+A7B9", <<"U+A7B8">>>>, <<"U+A7BB", <<"U+A7BA">>>>,
    <<"U+A7BD", <<"U+A7BC">>>>, <<"U+A7BF", <<"U+A7BE">>>>,
    <<"U+A7C1", <<"U+A7C0">>>>, <<"U+A7C3", <<"U+A7C2">>>>,
    <<"U+A7C8", <<"U+A7C7">>>>, <<"U+A7CA", <<"U+A7C9">>>>,
    <<"U+A7D1", <<"U+A7D0">>>>, <<"U+A7D7", <<"U+A7D6">>>>,
    <<"U+A7D9", <<"U+A7D8">>>>, <<"U+A7F6", <<"U+A7F5">>>>,
    <<"U+AB53", <<"U+A7B3">>>>, <<"U+AB70", <<"U+13A0">>>>,
    <<"U+AB71", <<"U+13A1">>>>, <<"U+AB72", <<"U+13A2">>>>,
    <<"U+AB73", <<"U+13A3">>>>, <<"U+AB74", <<"U+13A4">>>>,
    <<"U+AB75", <<"U+13A5">>>>, <<"U+AB76", <<"U+13A6">>>>,
    <<"U+AB77", <<"U+13A7">>>>, <<"U+AB78", <<"U+13A8">>>>,
    <<"U+AB79", <<"U+13A9">>>>, <<"U+AB7A", <<"U+13AA">>>>,
    <<"U+AB7B", <<"U+13AB">>>>, <<"U+AB7C", <<"U+13AC">>>>,
    <<"U+AB7D", <<"U+13AD">>>>, <<"U+AB7E", <<"U+13AE">>>>,
    <<"U+AB7F", <<"U+13AF">>>>, <<"U+AB80", <<"U+13B0">>>>,
    <<"U+AB81", <<"U+13B1">>>>, <<"U+AB82", <<"U+13B2">>>>,
    <<"U+AB83", <<"U+13B3">>>>, <<"U+AB84", <<"U+13B4">>>>,
    <<"U+AB85", <<"U+13B5">>>>, <<"U+AB86", <<"U+13B6">>>>,
    <<"U+AB87", <<"U+13B7">>>>, <<"U+AB88", <<"U+13B8">>>>,
    <<"U+AB89", <<"U+13B9">>>>, <<"U+AB8A", <<"U+13BA">>>>,
    <<"U+AB8B", <<"U+13BB">>>>, <<"U+AB8C", <<"U+13BC">>>>,
    <<"U+AB8D", <<"U+13BD">>>>, <<"U+AB8E", <<"U+13BE">>>>,
    <<"U+AB8F", <<"U+13BF">>>>, <<"U+AB90", <<"U+13C0">>>>,
    <<"U+AB91", <<"U+13C1">>>>, <<"U+AB92", <<"U+13C2">>>>,
    <<"U+AB93", <<"U+13C3">>>>, <<"U+AB94", <<"U+13C4">>>>,
    <<"U+AB95", <<"U+13C5">>>>, <<"U+AB96", <<"U+13C6">>>>,
    <<"U+AB97", <<"U+13C7">>>>, <<"U+AB98", <<"U+13C8">>>>,
    <<"U+AB99", <<"U+13C9">>>>, <<"U+AB9A", <<"U+13CA">>>>,
    <<"U+AB9B", <<"U+13CB">>>>, <<"U+AB9C", <<"U+13CC">>>>,
    <<"U+AB9D", <<"U+13CD">>>>, <<"U+AB9E", <<"U+13CE">>>>,
    <<"U+AB9F", <<"U+13CF">>>>, <<"U+ABA0", <<"U+13D0">>>>,
    <<"U+ABA1", <<"U+13D1">>>>, <<"U+ABA2", <<"U+13D2">>>>,
    <<"U+ABA3", <<"U+13D3">>>>, <<"U+ABA4", <<"U+13D4">>>>,
    <<"U+ABA5", <<"U+13D5">>>>, <<"U+ABA6", <<"U+13D6">>>>,
    <<"U+ABA7", <<"U+13D7">>>>, <<"U+ABA8", <<"U+13D8">>>>,
    <<"U+ABA9", <<"U+13D9">>>>, <<"U+ABAA", <<"U+13DA">>>>,
    <<"U+ABAB", <<"U+13DB">>>>, <<"U+ABAC", <<"U+13DC">>>>,
    <<"U+ABAD", <<"U+13DD">>>>, <<"U+ABAE", <<"U+13DE">>>>,
    <<"U+ABAF", <<"U+13DF">>>>, <<"U+ABB0", <<"U+13E0">>>>,
    <<"U+ABB1", <<"U+13E1">>>>, <<"U+ABB2", <<"U+13E2">>>>,
    <<"U+ABB3", <<"U+13E3">>>>, <<"U+ABB4", <<"U+13E4">>>>,
    <<"U+ABB5", <<"U+13E5">>>>, <<"U+ABB6", <<"U+13E6">>>>,
    <<"U+ABB7", <<"U+13E7">>>>, <<"U+ABB8", <<"U+13E8">>>>,
    <<"U+ABB9", <<"U+13E9">>>>, <<"U+ABBA", <<"U+13EA">>>>,
    <<"U+ABBB", <<"U+13EB">>>>, <<"U+ABBC", <<"U+13EC">>>>,
    <<"U+ABBD", <<"U+13ED">>>>, <<"U+ABBE", <<"U+13EE">>>>,
    <<"U+ABBF", <<"U+13EF">>>>, <<"U+FB00", <<"F", "F">>>>,
    <<"U+FB01", <<"F", "I">>>>, <<"U+FB02", <<"F", "L">>>>,
    <<"U+FB03", <<"F", "F", "I">>>>, <<"U+FB04", <<"F", "F", "L">>>>,
    <<"U+FB05", <<"S", "T">>>>, <<"U+FB06", <<"S", "T">>>>,
    <<"U+FB13", <<"U+0544", "U+0546">>>>,
    <<"U+FB14", <<"U+0544", "U+0535">>>>,
    <<"U+FB15", <<"U+0544", "U+053B">>>>,
    <<"U+FB16", <<"U+054E", "U+0546">>>>,
    <<"U+FB17", <<"U+0544", "U+053D">>>>, <<"U+FF41", <<"U+FF21">>>>,
    <<"U+FF42", <<"U+FF22">>>>, <<"U+FF43", <<"U+FF23">>>>,
    <<"U+FF44", <<"U+FF24">>>>, <<"U+FF45", <<"U+FF25">>>>,
    <<"U+FF46", <<"U+FF26">>>>, <<"U+FF47", <<"U+FF27">>>>,
    <<"U+FF48", <<"U+FF28">>>>, <<"U+FF49", <<"U+FF29">>>>,
    <<"U+FF4A", <<"U+FF2A">>>>, <<"U+FF4B", <<"U+FF2B">>>>,
    <<"U+FF4C", <<"U+FF2C">>>>, <<"U+FF4D", <<"U+FF2D">>>>,
    <<"U+FF4E", <<"U+FF2E">>>>, <<"U+FF4F", <<"U+FF2F">>>>,
    <<"U+FF50", <<"U+FF30">>>>, <<"U+FF51", <<"U+FF31">>>>,
    <<"U+FF52", <<"U+FF32">>>>, <<"U+FF53", <<"U+FF33">>>>,
    <<"U+FF54", <<"U+FF34">>>>, <<"U+FF55", <<"U+FF35">>>>,
    <<"U+FF56", <<"U+FF36">>>>, <<"U+FF57", <<"U+FF37">>>>,
    <<"U+FF58", <<"U+FF38">>>>, <<"U+FF59", <<"U+FF39">>>>,
    <<"U+FF5A", <<"U+FF3A">>>>, <<"U+10428", <<"U+10400">>>>,
    <<"U+10429", <<"U+10401">>>>, <<"U+1042A", <<"U+10402">>>>,
    <<"U+1042B", <<"U+10403">>>>, <<"U+1042C", <<"U+10404">>>>,
    <<"U+1042D", <<"U+10405">>>>, <<"U+1042E", <<"U+10406">>>>,
    <<"U+1042F", <<"U+10407">>>>, <<"U+10430", <<"U+10408">>>>,
    <<"U+10431", <<"U+10409">>>>, <<"U+10432", <<"U+1040A">>>>,
    <<"U+10433", <<"U+1040B">>>>, <<"U+10434", <<"U+1040C">>>>,
    <<"U+10435", <<"U+1040D">>>>, <<"U+10436", <<"U+1040E">>>>,
    <<"U+10437", <<"U+1040F">>>>, <<"U+10438", <<"U+10410">>>>,
    <<"U+10439", <<"U+10411">>>>, <<"U+1043A", <<"U+10412">>>>,
    <<"U+1043B", <<"U+10413">>>>, <<"U+1043C", <<"U+10414">>>>,
    <<"U+1043D", <<"U+10415">>>>, <<"U+1043E", <<"U+10416">>>>,
    <<"U+1043F", <<"U+10417">>>>, <<"U+10440", <<"U+10418">>>>,
    <<"U+10441", <<"U+10419">>>>, <<"U+10442", <<"U+1041A">>>>,
    <<"U+10443", <<"U+1041B">>>>, <<"U+10444", <<"U+1041C">>>>,
    <<"U+10445", <<"U+1041D">>>>, <<"U+10446", <<"U+1041E">>>>,
    <<"U+10447", <<"U+1041F">>>>, <<"U+10448", <<"U+10420">>>>,
    <<"U+10449", <<"U+10421">>>>, <<"U+1044A", <<"U+10422">>>>,
    <<"U+1044B", <<"U+10423">>>>, <<"U+1044C", <<"U+10424">>>>,
    <<"U+1044D", <<"U+10425">>>>, <<"U+1044E", <<"U+10426">>>>,
    <<"U+1044F", <<"U+10427">>>>, <<"U+104D8", <<"U+104B0">>>>,
    <<"U+104D9", <<"U+104B1">>>>, <<"U+104DA", <<"U+104B2">>>>,
    <<"U+104DB", <<"U+104B3">>>>, <<"U+104DC", <<"U+104B4">>>>,
    <<"U+104DD", <<"U+104B5">>>>, <<"U+104DE", <<"U+104B6">>>>,
    <<"U+104DF", <<"U+104B7">>>>, <<"U+104E0", <<"U+104B8">>>>,
    <<"U+104E1", <<"U+104B9">>>>, <<"U+104E2", <<"U+104BA">>>>,
    <<"U+104E3", <<"U+104BB">>>>, <<"U+104E4", <<"U+104BC">>>>,
    <<"U+104E5", <<"U+104BD">>>>, <<"U+104E6", <<"U+104BE">>>>,
    <<"U+104E7", <<"U+104BF">>>>, <<"U+104E8", <<"U+104C0">>>>,
    <<"U+104E9", <<"U+104C1">>>>, <<"U+104EA", <<"U+104C2">>>>,
    <<"U+104EB", <<"U+104C3">>>>, <<"U+104EC", <<"U+104C4">>>>,
    <<"U+104ED", <<"U+104C5">>>>, <<"U+104EE", <<"U+104C6">>>>,
    <<"U+104EF", <<"U+104C7">>>>, <<"U+104F0", <<"U+104C8">>>>,
    <<"U+104F1", <<"U+104C9">>>>, <<"U+104F2", <<"U+104CA">>>>,
    <<"U+104F3", <<"U+104CB">>>>, <<"U+104F4", <<"U+104CC">>>>,
    <<"U+104F5", <<"U+104CD">>>>, <<"U+104F6", <<"U+104CE">>>>,
    <<"U+104F7", <<"U+104CF">>>>, <<"U+104F8", <<"U+104D0">>>>,
    <<"U+104F9", <<"U+104D1">>>>, <<"U+104FA", <<"U+104D2">>>>,
    <<"U+104FB", <<"U+104D3">>>>, <<"U+10597", <<"U+10570">>>>,
    <<"U+10598", <<"U+10571">>>>, <<"U+10599", <<"U+10572">>>>,
    <<"U+1059A", <<"U+10573">>>>, <<"U+1059B", <<"U+10574">>>>,
    <<"U+1059C", <<"U+10575">>>>, <<"U+1059D", <<"U+10576">>>>,
    <<"U+1059E", <<"U+10577">>>>, <<"U+1059F", <<"U+10578">>>>,
    <<"U+105A0", <<"U+10579">>>>, <<"U+105A1", <<"U+1057A">>>>,
    <<"U+105A3", <<"U+1057C">>>>, <<"U+105A4", <<"U+1057D">>>>,
    <<"U+105A5", <<"U+1057E">>>>, <<"U+105A6", <<"U+1057F">>>>,
    <<"U+105A7", <<"U+10580">>>>, <<"U+105A8", <<"U+10581">>>>,
    <<"U+105A9", <<"U+10582">>>>, <<"U+105AA", <<"U+10583">>>>,
    <<"U+105AB", <<"U+10584">>>>, <<"U+105AC", <<"U+10585">>>>,
    <<"U+105AD", <<"U+10586">>>>, <<"U+105AE", <<"U+10587">>>>,
    <<"U+105AF", <<"U+10588">>>>, <<"U+105B0", <<"U+10589">>>>,
    <<"U+105B1", <<"U+1058A">>>>, <<"U+105B3", <<"U+1058C">>>>,
    <<"U+105B4", <<"U+1058D">>>>, <<"U+105B5", <<"U+1058E">>>>,
    <<"U+105B6", <<"U+1058F">>>>, <<"U+105B7", <<"U+10590">>>>,
    <<"U+105B8", <<"U+10591">>>>, <<"U+105B9", <<"U+10592">>>>,
    <<"U+105BB", <<"U+10594">>>>, <<"U+105BC", <<"U+10595">>>>,
    <<"U+10CC0", <<"U+10C80">>>>, <<"U+10CC1", <<"U+10C81">>>>,
    <<"U+10CC2", <<"U+10C82">>>>, <<"U+10CC3", <<"U+10C83">>>>,
    <<"U+10CC4", <<"U+10C84">>>>, <<"U+10CC5", <<"U+10C85">>>>,
    <<"U+10CC6", <<"U+10C86">>>>, <<"U+10CC7", <<"U+10C87">>>>,
    <<"U+10CC8", <<"U+10C88">>>>, <<"U+10CC9", <<"U+10C89">>>>,
    <<"U+10CCA", <<"U+10C8A">>>>, <<"U+10CCB", <<"U+10C8B">>>>,
    <<"U+10CCC", <<"U+10C8C">>>>, <<"U+10CCD", <<"U+10C8D">>>>,
    <<"U+10CCE", <<"U+10C8E">>>>, <<"U+10CCF", <<"U+10C8F">>>>,
    <<"U+10CD0", <<"U+10C90">>>>, <<"U+10CD1", <<"U+10C91">>>>,
    <<"U+10CD2", <<"U+10C92">>>>, <<"U+10CD3", <<"U+10C93">>>>,
    <<"U+10CD4", <<"U+10C94">>>>, <<"U+10CD5", <<"U+10C95">>>>,
    <<"U+10CD6", <<"U+10C96">>>>, <<"U+10CD7", <<"U+10C97">>>>,
    <<"U+10CD8", <<"U+10C98">>>>, <<"U+10CD9", <<"U+10C99">>>>,
    <<"U+10CDA", <<"U+10C9A">>>>, <<"U+10CDB", <<"U+10C9B">>>>,
    <<"U+10CDC", <<"U+10C9C">>>>, <<"U+10CDD", <<"U+10C9D">>>>,
    <<"U+10CDE", <<"U+10C9E">>>>, <<"U+10CDF", <<"U+10C9F">>>>,
    <<"U+10CE0", <<"U+10CA0">>>>, <<"U+10CE1", <<"U+10CA1">>>>,
    <<"U+10CE2", <<"U+10CA2">>>>, <<"U+10CE3", <<"U+10CA3">>>>,
    <<"U+10CE4", <<"U+10CA4">>>>, <<"U+10CE5", <<"U+10CA5">>>>,
    <<"U+10CE6", <<"U+10CA6">>>>, <<"U+10CE7", <<"U+10CA7">>>>,
    <<"U+10CE8", <<"U+10CA8">>>>, <<"U+10CE9", <<"U+10CA9">>>>,
    <<"U+10CEA", <<"U+10CAA">>>>, <<"U+10CEB", <<"U+10CAB">>>>,
    <<"U+10CEC", <<"U+10CAC">>>>, <<"U+10CED", <<"U+10CAD">>>>,
    <<"U+10CEE", <<"U+10CAE">>>>, <<"U+10CEF", <<"U+10CAF">>>>,
    <<"U+10CF0", <<"U+10CB0">>>>, <<"U+10CF1", <<"U+10CB1">>>>,
    <<"U+10CF2", <<"U+10CB2">>>>, <<"U+118C0", <<"U+118A0">>>>,
    <<"U+118C1", <<"U+118A1">>>>, <<"U+118C2", <<"U+118A2">>>>,
    <<"U+118C3", <<"U+118A3">>>>, <<"U+118C4", <<"U+118A4">>>>,
    <<"U+118C5", <<"U+118A5">>>>, <<"U+118C6", <<"U+118A6">>>>,
    <<"U+118C7", <<"U+118A7">>>>, <<"U+118C8", <<"U+118A8">>>>,
    <<"U+118C9", <<"U+118A9">>>>, <<"U+118CA", <<"U+118AA">>>>,
    <<"U+118CB", <<"U+118AB">>>>, <<"U+118CC", <<"U+118AC">>>>,
    <<"U+118CD", <<"U+118AD">>>>, <<"U+118CE", <<"U+118AE">>>>,
    <<"U+118CF", <<"U+118AF">>>>, <<"U+118D0", <<"U+118B0">>>>,
    <<"U+118D1", <<"U+118B1">>>>, <<"U+118D2", <<"U+118B2">>>>,
    <<"U+118D3", <<"U+118B3">>>>, <<"U+118D4", <<"U+118B4">>>>,
    <<"U+118D5", <<"U+118B5">>>>, <<"U+118D6", <<"U+118B6">>>>,
    <<"U+118D7", <<"U+118B7">>>>, <<"U+118D8", <<"U+118B8">>>>,
    <<"U+118D9", <<"U+118B9">>>>, <<"U+118DA", <<"U+118BA">>>>,
    <<"U+118DB", <<"U+118BB">>>>, <<"U+118DC", <<"U+118BC">>>>,
    <<"U+118DD", <<"U+118BD">>>>, <<"U+118DE", <<"U+118BE">>>>,
    <<"U+118DF", <<"U+118BF">>>>, <<"U+16E60", <<"U+16E40">>>>,
    <<"U+16E61", <<"U+16E41">>>>, <<"U+16E62", <<"U+16E42">>>>,
    <<"U+16E63", <<"U+16E43">>>>, <<"U+16E64", <<"U+16E44">>>>,
    <<"U+16E65", <<"U+16E45">>>>, <<"U+16E66", <<"U+16E46">>>>,
    <<"U+16E67", <<"U+16E47">>>>, <<"U+16E68", <<"U+16E48">>>>,
    <<"U+16E69", <<"U+16E49">>>>, <<"U+16E6A", <<"U+16E4A">>>>,
    <<"U+16E6B", <<"U+16E4B">>>>, <<"U+16E6C", <<"U+16E4C">>>>,
    <<"U+16E6D", <<"U+16E4D">>>>, <<"U+16E6E", <<"U+16E4E">>>>,
    <<"U+16E6F", <<"U+16E4F">>>>, <<"U+16E70", <<"U+16E50">>>>,
    <<"U+16E71", <<"U+16E51">>>>, <<"U+16E72", <<"U+16E52">>>>,
    <<"U+16E73", <<"U+16E53">>>>, <<"U+16E74", <<"U+16E54">>>>,
    <<"U+16E75", <<"U+16E55">>>>, <<"U+16E76", <<"U+16E56">>>>,
    <<"U+16E77", <<"U+16E57">>>>, <<"U+16E78", <<"U+16E58">>>>,
    <<"U+16E79", <<"U+16E59">>>>, <<"U+16E7A", <<"U+16E5A">>>>,
    <<"U+16E7B", <<"U+16E5B">>>>, <<"U+16E7C", <<"U+16E5C">>>>,
    <<"U+16E7D", <<"U+16E5D">>>>, <<"U+16E7E", <<"U+16E5E">>>>,
    <<"U+16E7F", <<"U+16E5F">>>>, <<"U+1E922", <<"U+1E900">>>>,
    <<"U+1E923", <<"U+1E901">>>>, <<"U+1E924", <<"U+1E902">>>>,
    <<"U+1E925", <<"U+1E903">>>>, <<"U+1E926", <<"U+1E904">>>>,
    <<"U+1E927", <<"U+1E905">>>>, <<"U+1E928", <<"U+1E906">>>>,
    <<"U+1E929", <<"U+1E907">>>>, <<"U+1E92A", <<"U+1E908">>>>,
    <<"U+1E92B", <<"U+1E909">>>>, <<"U+1E92C", <<"U+1E90A">>>>,
    <<"U+1E92D", <<"U+1E90B">>>>, <<"U+1E92E", <<"U+1E90C">>>>,
    <<"U+1E92F", <<"U+1E90D">>>>, <<"U+1E930", <<"U+1E90E">>>>,
    <<"U+1E931", <<"U+1E90F">>>>, <<"U+1E932", <<"U+1E910">>>>,
    <<"U+1E933", <<"U+1E911">>>>, <<"U+1E934", <<"U+1E912">>>>,
    <<"U+1E935", <<"U+1E913">>>>, <<"U+1E936", <<"U+1E914">>>>,
    <<"U+1E937", <<"U+1E915">>>>, <<"U+1E938", <<"U+1E916">>>>,
    <<"U+1E939", <<"U+1E917">>>>, <<"U+1E93A", <<"U+1E918">>>>,
    <<"U+1E93B", <<"U+1E919">>>>, <<"U+1E93C", <<"U+1E91A">>>>,
    <<"U+1E93D", <<"U+1E91B">>>>, <<"U+1E93E", <<"U+1E91C">>>>,
    <<"U+1E93F", <<"U+1E91D">>>>, <<"U+1E940", <<"U+1E91E">>>>,
    <<"U+1E941", <<"U+1E91F">>>>, <<"U+1E942", <<"U+1E920">>>>,
    <<"U+1E943", <<"U+1E921">>>>>>

UpperKeys == {UpperPairs[k][1] : k \in 1..Len(UpperPairs)}

UpperOf ==
    [c \in UpperKeys |->
        UpperPairs[CHOOSE k \in 1..Len(UpperPairs) : UpperPairs[k][1] = c][2]]

LowerSeq == <<"a", "b", "c", "d", "e", "f", "g", "h", "i", "j", "k", "l", "m",
              "n", "o", "p", "q", "r", "s", "t", "u", "v", "w", "x", "y", "z">>

UpperSeq == <<"A", "B", "C", "D", "E", "F", "G", "H", "I", "J", "K", "L", "M",
              "N", "O", "P", "Q", "R", "S", "T", "U", "V", "W", "X", "Y", "Z">>

\* The images of the characters of s, joined
RECURSIVE upper_chars(_)
upper_chars(s) ==
    IF Len(s) = 0 THEN <<>>
    ELSE (IF s[1] \in UpperKeys THEN UpperOf[s[1]] ELSE <<s[1]>>) \o upper_chars(Tail(s))

\* str.upper(): the images of the characters, joined; the result can be
\* longer than s.  A long string is converted half by half.
RECURSIVE upper(_)
upper(s) ==
    IF Len(s) <= 16 THEN upper_chars(s)
    ELSE upper(SubSeq(s, 1, Len(s) \div 2)) \o upper(SubSeq(s, Len(s) \div 2 + 1, Len(s)))

\* lines 558-561: what the loop does with one value.  A value that starts
\* with RGB or # ends the function with the validator's result; any other
\* value lets the loop go on to the next entry.
check_value(rgb) ==
    IF StartsAt(rgb, 0, <<"R", "G", "B">>) THEN validate_rgb_string(rgb)
    ELSE IF StartsAt(rgb, 0, <<"#">>) THEN validate_rgb_hex_string(rgb)
    ELSE "continue"

\* lines 550-564: the loop over tagmap.items() from entry k on
RECURSIVE check_from(_, _)
check_from(tm, k) ==
    IF k > Len(tm) THEN "True"
    ELSE IF ~tm[k].kstr THEN "ValueError"
    ELSE IF check_value(upper(tm[k].val)) = "continue" THEN check_from(tm, k + 1)
    ELSE check_value(upper(tm[k].val))

\* Returns True or raises ValueError
check_tagmap(tm) == IF Len(tm) = 0 THEN "True" ELSE check_from(tm, 1)

----------------------------------------------------------------------------
(* Inputs of output_txt_script *)

RGB_A == <<"R", "G", "B", "(", "7", "4", ",", "2", "1", ",", "1", "4", "8", ")">>
RGB_B == <<"R", "G", "B", "(", "1", "1", ",", "9", "3", ",", "1", "6", "2", ")">>

Expert   == <<"E", "x", "p", "e", "r", "t">>
AI       == <<"A", "I">>
Narrator == <<"N", "a", "r", "r", "a", "t", "o", "r">>

Entry(key, val) == [kstr |-> TRUE, key |-> key, val |-> val]

\* (rtf_color_dict, tagmap) pairs: the tagmap of the unit tests, one that
\* also names the default colour, one that lacks a colour of the palette,
\* the empty one, and a palette without slot 2.
Configs ==
    { [dict |-> <<RGB_A, RGB_B>>, tm |-> <<Entry(RGB_A, Expert), Entry(RGB_B, AI)>>],
      [dict |-> <<RGB_A, RGB_B>>,
       tm   |-> <<Entry(RGB_BLACK, Narrator), Entry(RGB_A, Expert), Entry(RGB_B, AI)>>],
      [dict |-> <<RGB_A, RGB_B>>, tm |-> <<Entry(RGB_A, Expert)>>],
      [dict |-> <<RGB_A, RGB_B>>, tm |-> <<>>],
      [dict |-> <<RGB_A>>, tm |-> <<Entry(RGB_A, Expert), Entry(RGB_B, AI)>>] }

\* Colour tags of the body
Markers == { <<BS, "c", "f", "1">>, <<BS, "c", "f", "2">> }

\* Raw text between two colour tags: nothing, the space that ends the tag,
\* plain text with and without that space, a second leading space and a
\* trailing one around a control word (\b and the space that ends it are
\* dropped by the converter), and a group the converter drops.
Texts ==
    { <<>>,
      <<" ">>,
      <<"a">>,
      <<" ", "b">>,
      <<" ", " ", "c", BS, "b", " ", " ">>,
      <<"{", BS, "*", BS, "c", "f", "2", " ", "x", "}">> }

RECURSIVE DocsWith(_)
DocsWith(n) ==
    IF n = 0 THEN Texts
    ELSE {d \o m \o t : d \in DocsWith(n - 1), m \in Markers, t \in Texts}

Docs == UNION {DocsWith(n) : n \in 0..MaxMarkers}

----------------------------------------------------------------------------
(* output_txt_script as a state machine *)

FnIdle == fn_pc = "idle" /\ fn_in = <<>> /\ fn_out = "none"

\* An attribute that was never assigned
Unset == "unset"

\* self.jsonl_objs: never assigned, True (print mode), or the list of Turns
UnsetObjs == [kind |-> Unset, list |-> <<>>]

\* The function with no argument: an empty directory
NoFiles == [n \in {} |-> <<>>]

\* DiscussionConverter is not running
AggIdle ==
    /\ agg_pc = "idle"
    /\ rtf_dir = NoFiles
    /\ jsonl_dir_is_tmp = FALSE
    /\ jsonl_dir = <<>>
    /\ files = NoFiles
    /\ pending = {}
    /\ cur_rtf = <<>>
    /\ listed = {}
    /\ discussion = Unset
    /\ agg_error = NoError

\* A path that names no file.  Of a file, readable says whether open()
\* succeeds, decodes whether fd.read() decodes its bytes, and content is the
\* text it stores.
NoFile == [readable |-> FALSE, decodes |-> FALSE, content |-> <<>>]

\* A file that reads and holds the document
Stored(doc) == [readable |-> TRUE, decodes |-> TRUE, content |-> doc]

\* RTFParser.__init__ is not running: output_txt_script is called on its own
CtorIdle ==
    /\ ctor_pc = "idle"
    /\ fname = NoFile
    /\ opened = FALSE
    /\ self = [success |-> Unset, color_tag_marker_char |-> Unset, jsonl_objs |-> UnsetObjs]
    /\ ctor_error = NoError

Init ==
    /\ rtf_content \in Docs
    /\ \E c \in Configs : rtf_color_dict = c.dict /\ tagmap = c.tm
    /\ collect_output \in BOOLEAN
    /\ pc = "call"
    /\ tags_info = <<>>
    /\ clean_txt = <<>>
    /\ idx = 0
    /\ cur_name = <<>>
    /\ i = 0
    /\ jsonl_objs = <<>>
    /\ stdout = <<>>
    /\ ret = "none"
    /\ error = NoError
    /\ FnIdle
    /\ CtorIdle
    /\ AggIdle

\* A list that outlives the call and is used again by the next one
shared_jsonl_objs == jsonl_objs

\* line 204: jsonl_objs = [], a new list in every call
new_jsonl_objs == <<>>

\* lines 204-254: resolve the tags, protect them, clean the text
Call ==
    /\ pc = "call"
    /\ \E g \in {gather_tags_info(rtf_content, rtf_color_dict, tagmap)} :
           IF g.err.type /= "none"
           THEN \* lines 228 and 348: the entries appended at line 230 before
                \* the exception stay in tags_info
                /\ pc' = "raised"
                /\ error' = g.err
                /\ tags_info' = g.tags_info
                /\ UNCHANGED <<clean_txt, idx, cur_name>>
           ELSE \E conv \in {rtf_to_text(protect(rtf_content))} :
                    IF conv.kind /= "str"
                    THEN \* line 241: the exception of rtf_to_text leaves the call
                         /\ pc' = "raised"
                         /\ error' = Raise(conv.kind, 241, -1, <<>>)
                         /\ tags_info' = g.tags_info
                         /\ UNCHANGED <<clean_txt, idx, cur_name>>
                    ELSE /\ pc' = "scan"
                         /\ tags_info' = g.tags_info
                         /\ clean_txt' = conv.text
                         /\ idx' = 0
                         /\ cur_name' = default_name(tagmap)
                         /\ UNCHANGED error
    /\ jsonl_objs' = new_jsonl_objs
    /\ UNCHANGED <<rtf_content, rtf_color_dict, tagmap, collect_output, i, stdout, ret>>
    /\ UNCHANGED <<fn_vars, ctor_vars, agg_vars>>

\* Output that appends in collect mode and writes nothing in print mode
EmitCollectOnly(obj) ==
    /\ jsonl_objs' = (IF collect_output THEN Append(jsonl_objs, obj) ELSE jsonl_objs)
    /\ UNCHANGED stdout

\* lines 282-285 and 293-297: append to the list, or print
Emit(obj) ==
    IF collect_output
    THEN jsonl_objs' = Append(jsonl_objs, obj) /\ UNCHANGED stdout
    ELSE stdout' = Append(stdout, obj) /\ UNCHANGED jsonl_objs

\* lines 255-285: one iteration of the loop over the protected tags
ScanStep ==
    /\ pc = "scan"
    /\ i < Len(color_place_iter(clean_txt))
    /\ LET nxt_tag_match == color_place_iter(clean_txt)[i + 1]
           tag_start == nxt_tag_match.start
           txt == span_txt(clean_txt, idx, tag_start)
       IN  /\ idx' = tag_start + nxt_tag_match.len
           /\ IF i + 1 > Len(tags_info)
              THEN \* tags_info[i] raises IndexError (line 271 or 281)
                   /\ pc' = "raised"
                   /\ error' = Raise("IndexError", IF is_skipped(txt) THEN 271 ELSE 281,
                                     -1, <<>>)
                   /\ UNCHANGED <<cur_name, i, jsonl_objs, stdout>>
              ELSE /\ i' = i + 1
                   /\ IF is_skipped(txt)
                      THEN /\ cur_name' = name_after_skip(tags_info, i, cur_name)
                           /\ UNCHANGED <<jsonl_objs, stdout>>
                      ELSE /\ Emit(jsonl_obj(cur_name, txt))
                           /\ cur_name' = name_after_emit(tags_info, i, cur_name)
                   /\ UNCHANGED <<pc, error>>
    /\ UNCHANGED <<rtf_content, rtf_color_dict, tagmap, collect_output, tags_info,
                   clean_txt, ret>>
    /\ UNCHANGED <<fn_vars, ctor_vars, agg_vars>>

\* lines 287-298: the text after the last tag, and the return
FinalEmit ==
    /\ pc = "scan"
    /\ i = Len(color_place_iter(clean_txt))
    /\ IF idx >= Len(clean_txt)
       THEN \* clean_txt[idx] raises IndexError (line 289)
            /\ pc' = "raised"
            /\ error' = Raise("IndexError", 289, -1, <<>>)
            /\ UNCHANGED <<jsonl_objs, stdout, ret>>
       ELSE /\ Emit(jsonl_obj(cur_name, last_txt(clean_txt, idx)))
            /\ ret' = IF collect_output THEN "jsonl_objs" ELSE "True"
            /\ pc' = "returned"
            /\ UNCHANGED error
    /\ UNCHANGED <<rtf_content, rtf_color_dict, tagmap, collect_output, tags_info,
                   clean_txt, idx, cur_name, i>>
    /\ UNCHANGED <<fn_vars, ctor_vars, agg_vars>>

Next == Call \/ ScanStep \/ FinalEmit

Spec == Init /\ [][Next]_vars

\* The Turns written so far, whichever way they are written
Emitted == IF collect_output THEN jsonl_objs ELSE stdout

----------------------------------------------------------------------------
(* check_tagmap and validate_rgb_string applied to enumerated inputs *)

\* Largest number of entries of a generated tagmap
MaxEntries == 2

\* Largest number of spaces after a comma of a generated RGB string
MaxSpaces == 1

ScriptIdle ==
    /\ rtf_content = <<>> /\ rtf_color_dict = <<>> /\ tagmap = <<>>
    /\ collect_output = FALSE /\ pc = "idle" /\ tags_info = <<>> /\ clean_txt = <<>>
    /\ idx = 0 /\ cur_name = <<>> /\ i = 0 /\ jsonl_objs = <<>> /\ stdout = <<>>
    /\ ret = "none" /\ error = NoError
    /\ CtorIdle
    /\ AggIdle

\* Colour specifications a caller may write, each with whether it is one of
\* the two accepted forms (RGB(r,g,b) with components 0..255 in either
\* case, or # and six hexadecimal digits).  The last one is # and five
\* characters, the fifth being the ligature ff (U+FB00).
ValueCatalogue ==
    { [val |-> <<"R", "G", "B", "(", "0", ",", "0", ",", "0", ")">>,
       valid |-> TRUE],
      [val |-> <<"R", "G", "B", "(", "2", "5", "6", ",", "0", ",", "0", ")">>,
       valid |-> FALSE],
      [val |-> <<"r", "g", "b", "(", "7", "4", ",", " ", "2", "1", ",", " ", "1", "4", "8", ")">>,
       valid |-> TRUE],
      [val |-> <<"r", "e", "d">>,
       valid |-> FALSE],
      [val |-> <<"(", "0", ",", "0", ",", "4", ")">>,
       valid |-> FALSE],
      [val |-> <<"B", "B", "C", "A", "F", "F">>,
       valid |-> FALSE],
      [val |-> <<"#", "B", "a", "C", "D", "1", "2">>,
       valid |-> TRUE],
      [val |-> <<"#", "G", "G", "C", "A", "F", "F">>,
       valid |-> FALSE],
      [val |-> <<"#", "a", "b", "c", "d", "U+FB00">>,
       valid |-> FALSE] }

\* The entries a tagmap may hold at position k: any catalogued value under
\* a str key, or under a key that is not a str (the int k).
EntriesAt(k) ==
    { [kstr |-> ks, key |-> <<"k", UpperSeq[k]>>, val |-> c.val, valid |-> c.valid] :
        ks \in BOOLEAN, c \in ValueCatalogue }

RECURSIVE TagmapsOfLen(_)
TagmapsOfLen(n) ==
    IF n = 0 THEN {<<>>}
    ELSE {Append(tm, e) : tm \in TagmapsOfLen(n - 1), e \in EntriesAt(n)}

TagmapInputs == UNION {TagmapsOfLen(n) : n \in 0..MaxEntries}

InitTagmap ==
    /\ ScriptIdle
    /\ fn_pc = "input"
    /\ fn_in \in TagmapInputs
    /\ fn_out = "none"

ApplyCheckTagmap ==
    /\ fn_pc = "input"
    /\ fn_out' = check_tagmap(fn_in)
    /\ fn_pc' = "done"
    /\ UNCHANGED fn_in
    /\ UNCHANGED <<script_vars, ctor_vars, agg_vars>>

NextTagmap == ApplyCheckTagmap

SpecTagmap == InitTagmap /\ [][NextTagmap]_vars

\* Components a caller may write, with the number each stands for (v is
\* 1000000000 for every larger number): ASCII digits, Arabic-Indic digits,
\* a number of eleven digits, a negative number
ComponentCatalogue ==
    { [s |-> <<"0">>, v |-> 0],
      [s |-> <<"7">>, v |-> 7],
      [s |-> <<"U+0662", "U+0665", "5">>, v |-> 255],
      [s |-> <<"1", "2", "3", "4", "5", "6", "7", "8", "9", "0", "1">>, v |-> 1000000000],
      [s |-> <<"2", "5", "5">>, v |-> 255],
      [s |-> <<"2", "5", "6">>, v |-> 256],
      [s |-> <<"-", "1">>, v |-> -1] }

\* The digit d written in n digits: zeros, then d
Padded(n, d) == [k \in 1..n |-> IF k < n THEN "0" ELSE d]

\* 7 written in as many digits as int() converts, and in one digit more
LongComponents ==
    { [s |-> Padded(int_max_str_digits, "7"), v |-> 7],
      [s |-> Padded(int_max_str_digits + 1, "7"), v |-> 7] }

Spaces(n) == [k \in 1..n |-> " "]

\* A comma followed by spaces, and a comma preceded by a form feed
Separators == {<<",">> \o Spaces(n) : n \in 0..MaxSpaces} \cup {<<"\f", ",">>}

Prefixes == { <<"R", "G", "B", "(">>, <<"R", "G", "B", "(", " ">>, <<"r", "g", "b", "(">>,
              <<"(">>, <<"R", "G", "B">> }

Suffixes == { <<")">>, <<>>, <<")", "\n">>, <<")", " ">> }

\* The string an input record spells
RgbString(in) ==
    in.prefix \o in.r.s \o in.sep1 \o in.g.s \o in.sep2 \o in.b.s \o in.suffix

InitRgb ==
    /\ ScriptIdle
    /\ fn_pc = "input"
    /\ \/ fn_in \in [prefix : Prefixes, r : ComponentCatalogue, sep1 : Separators,
                     g : ComponentCatalogue, sep2 : Separators, b : ComponentCatalogue,
                     suffix : Suffixes]
       \/ fn_in \in [prefix : {<<"R", "G", "B", "(">>}, r : LongComponents,
                     sep1 : {<<",">>, <<",", " ">>},
                     g : {[s |-> <<"0">>, v |-> 0], [s |-> <<"2", "5", "6">>, v |-> 256]},
                     sep2 : {<<",">>},
                     b : LongComponents \cup {[s |-> <<"0">>, v |-> 0]},
                     suffix : {<<")">>}]
    /\ fn_out = "none"

ApplyValidateRgb ==
    /\ fn_pc = "input"
    /\ fn_out' = validate_rgb_string(RgbString(fn_in))
    /\ fn_pc' = "done"
    /\ UNCHANGED fn_in
    /\ UNCHANGED <<script_vars, ctor_vars, agg_vars>>

NextRgb == ApplyValidateRgb

SpecRgb == InitRgb /\ [][NextRgb]_vars

----------------------------------------------------------------------------
(* What the claims speak of: the tags and the spans of the cleaned text    *)

\* The protected tags of the cleaned text, in document order
CleanTags == color_place_iter(clean_txt)

NumTags == Len(CleanTags)

\* Span j, for j in 0..NumTags: the cleaned text from the end of tag j (the
\* start of the text for j = 0) to the start of tag j + 1 (the end of the
\* text for j = NumTags).
SpanLo(j) == IF j = 0 THEN 0 ELSE CleanTags[j].start + CleanTags[j].len

SpanHi(j) == IF j = NumTags THEN Len(clean_txt) ELSE CleanTags[j + 1].start

Span(j) == Slice(clean_txt, SpanLo(j), SpanHi(j))

\* A span with no text of its own: empty, or only the space that ends the tag
IsBlankSpan(sp) == sp = <<>> \/ sp = <<" ">>

\* txt is the span, or the span without its one leading space
IsSpanText(txt, sp) == txt = sp \/ (Len(sp) > 0 /\ sp[1] = " " /\ txt = Tail(sp))

\* The label mapped to RGB(0,0,0), else the empty string
DefaultLabel ==
    IF \E k \in 1..Len(tagmap) : tagmap[k].key = RGB_BLACK
    THEN tagmap[CHOOSE k \in 1..Len(tagmap) : tagmap[k].key = RGB_BLACK].val
    ELSE <<>>

\* The number written after cf at offset q of a text
NumberAt(txt, q) == int(Slice(txt, q + 3, q + 3 + Run(txt, q + 3, Digits)))

\* The label of span j: the one resolved for tag j, the default before tag 1
ResolvedLabel(j) == IF j = 0 THEN DefaultLabel ELSE tags_info[j].name

\* Number of spans the scan has dealt with
SpansDone == IF pc = "returned" THEN NumTags + 1 ELSE i

HasText(turn) == Len(turn.txt) > 0

LastEmitted == Emitted[Len(Emitted)]

----------------------------------------------------------------------------
(* Claims about output_txt_script, under Spec *)

\* The tag that precedes span j resolves: its number is a slot of the
\* colour table and the colour of that slot has a label in the tagmap
OwnLabelResolves(j) ==
    LET n == NumberAt(clean_txt, CleanTags[j].start)
    IN  /\ has_key(rtf_color_dict, n)
        /\ TagmapHas(tagmap, rtf_color_dict[CHOOSE key \in DOMAIN rtf_color_dict :
                                                ToString(key) = ToString(n)])

\* The label resolved for the tag that precedes span j: the label the
\* tagmap gives to the colour of the number written in that tag
OwnLabel(j) ==
    LET n == NumberAt(clean_txt, CleanTags[j].start)
    IN  TagmapGet(tagmap, rtf_color_dict[CHOOSE key \in DOMAIN rtf_color_dict :
                                             ToString(key) = ToString(n)])

\* The label of span j: the default before tag 1, else the label of the tag
\* that precedes the span
SpanLabel(j) == IF j = 0 THEN DefaultLabel ELSE OwnLabel(j)

\* C1 (as claimed): the Turns with text are, in document order, the spans
\* that hold text of their own; the span before the first tag carries the
\* default label and the span that follows a tag carries the label resolved
\* for that tag.
C1_OneAheadLabels ==
    pc \in {"scan", "returned"} =>
        LET held  == Ascending({j \in 0..(SpansDone - 1) : ~IsBlankSpan(Span(j))})
            turns == SelectSeq(Emitted, HasText)
        IN  /\ Len(turns) = Len(held)
            /\ \A n \in 1..Len(held) :
                  /\ held[n] >= 1 => OwnLabelResolves(held[n])
                  /\ turns[n].name = SpanLabel(held[n])
                  /\ IsSpanText(turns[n].txt, Span(held[n]))

\* C2 (as claimed): whenever all tags resolve, the call ends by writing one
\* last Turn that holds the text after the last tag under the label of that
\* tag, whatever the cleaned text is.
C2_FinalTurnAlwaysEmitted ==
    (pc \in {"returned", "raised"} /\ error.line \notin {228, 348, 519}) =>
        /\ pc = "returned"
        /\ Len(Emitted) >= 1
        /\ LastEmitted.name = ResolvedLabel(NumTags)
        /\ IsSpanText(LastEmitted.txt, Span(NumTags))

\* C3 (as claimed): no Turn that is written out has empty text.
C3_NoEmptyTurn == \A n \in 1..Len(Emitted) : Len(Emitted[n].txt) > 0

\* C4 (as claimed): a blank span between tag i and tag i + 1 writes no
\* Turn; and a Turn written for a later span, after the tag that precedes
\* it, carries the label resolved for that tag, not that of an earlier one.
C4_ConsecutiveTags ==
    [][ (pc = "scan" /\ i >= 1) =>
          /\ (i < NumTags /\ IsBlankSpan(Span(i)) /\ pc' = "scan") => Emitted' = Emitted
          /\ (i >= 2 /\ (\E k \in 1..(i - 1) : IsBlankSpan(Span(k))) /\ Emitted' /= Emitted) =>
                /\ OwnLabelResolves(i)
                /\ Emitted'[Len(Emitted')].name = OwnLabel(i)
      ]_vars

\* C5 (as claimed): the text of a Turn is its span, less one leading space
\* only when the span follows a tag; the span at the start of the document
\* keeps its leading space.
C5_OnlyTagSpaceRemoved ==
    [][ (pc = "scan" /\ Emitted' /= Emitted) =>
          Emitted'[Len(Emitted')].txt =
              IF i >= 1 /\ Len(Span(i)) > 0 /\ Span(i)[1] = " "
              THEN Tail(Span(i)) ELSE Span(i)
      ]_vars

\* The colour tags of the raw document, by the offset of their backslash
TagDigits(q) == Run(rtf_content, q + 3, Digits)

TagNumber(q) == int(Slice(rtf_content, q + 3, q + 3 + TagDigits(q)))

TagInPalette(q) ==
    /\ ~int_raises(Slice(rtf_content, q + 3, q + 3 + TagDigits(q)))
    /\ has_key(rtf_color_dict, TagNumber(q))

\* The tag has a colour in the palette and the tagmap has no entry for it
TagUnlabelled(q) ==
    /\ TagInPalette(q)
    /\ ~ \E k \in 1..Len(tagmap) :
             tagmap[k].kstr /\ tagmap[k].key = rtf_color_dict[TagNumber(q)]

\* C6: when some tag of the document has a palette colour without an entry
\* in the tagmap, the call raises and no Turn is collected or printed; the
\* error names the offset and the RGB value of the first such tag (no tag
\* before it being malformed or outside the palette).
C6_UnresolvedColorFails ==
    (pc /= "call" /\ \E q \in CfStarts(rtf_content) : TagUnlabelled(q)) =>
        /\ pc = "raised"
        /\ jsonl_objs = <<>> /\ stdout = <<>> /\ ret = "none"
        /\ LET first == Min({q \in CfStarts(rtf_content) :
                                ~TagInPalette(q) \/ TagUnlabelled(q)})
           IN  TagUnlabelled(first) =>
                  error = Raise("ValueError", 228, first,
                                rtf_color_dict[TagNumber(first)])

\* C6 witness: the second tag of a document that starts with text is the
\* one without a label.
C6_Witness ==
    /\ pc = "raised"
    /\ error.line = 228
    /\ error.pos >= 5
    /\ rtf_content[1] = "a"

\* C7 (as claimed): with an empty tagmap, which check_tagmap accepts, a
\* document with colour tags is still split, every Turn under the empty label.
C7_EmptyTagmapParses ==
    (tagmap = <<>> /\ pc \notin {"call", "idle"} /\ CfStarts(rtf_content) /= {}) =>
        /\ check_tagmap(tagmap) = "True"
        /\ pc \in {"scan", "returned"}
        /\ \A n \in 1..Len(Emitted) : Emitted[n].name = <<>>

----------------------------------------------------------------------------
(* Claims about check_tagmap, under SpecTagmap *)

\* C8 (as claimed): check_tagmap returns True exactly when every entry has
\* a str key and a valid colour specification, wherever the bad entry is.
C8_EveryEntryChecked ==
    fn_pc = "done" =>
        (fn_out = "True" <=> \A k \in 1..Len(fn_in) : fn_in[k].kstr /\ fn_in[k].valid)

\* C9 (as claimed): a tagmap with a colour specification of neither
\* accepted form is rejected.
C9_UnknownFormRejected ==
    (fn_pc = "done" /\ \E k \in 1..Len(fn_in) : ~fn_in[k].valid) =>
        fn_out = "ValueError"

----------------------------------------------------------------------------
(* Claims about validate_rgb_string, under SpecRgb *)

\* RGB(r,g,b) with nothing but spaces after the commas
IsPlainRgbForm(in) ==
    /\ in.prefix = <<"R", "G", "B", "(">>
    /\ \E n \in 0..MaxSpaces : in.sep1 = <<",">> \o Spaces(n)
    /\ \E n \in 0..MaxSpaces : in.sep2 = <<",">> \o Spaces(n)
    /\ in.suffix = <<")">>

\* C10 (as claimed): validate_rgb_string returns True for RGB(r,g,b) with
\* r, g, b in 0..255, spaces after the commas allowed, and raises for a
\* component above 255, a negative component, or a string without the RGB
\* prefix.
C10_RgbRange ==
    fn_pc = "done" =>
        /\ (IsPlainRgbForm(fn_in) /\ \A c \in {fn_in.r, fn_in.g, fn_in.b} : c.v \in 0..255)
              => fn_out = "True"
        /\ ( \/ \E c \in {fn_in.r, fn_in.g, fn_in.b} : c.v > 255 \/ c.v < 0
             \/ ~StartsAt(fn_in.prefix, 0, <<"R", "G", "B">>) )
              => fn_out = "ValueError"

\* C10: validate_rgb_string returns True for RGB(r,g,b) with r, g, b in
\* 0..255 and each written in no more digits than int() converts, spaces
\* after the commas allowed, and raises for a component above 255, a
\* negative component, a component of more digits than int() converts, or a
\* string without the RGB prefix.
C10_RgbRangeWithinIntLimit ==
    fn_pc = "done" =>
        /\ ( /\ IsPlainRgbForm(fn_in)
             /\ \A c \in {fn_in.r, fn_in.g, fn_in.b} :
                    c.v \in 0..255 /\ Len(c.s) <= int_max_str_digits )
              => fn_out = "True"
        /\ ( \/ \E c \in {fn_in.r, fn_in.g, fn_in.b} :
                    c.v > 255 \/ c.v < 0 \/ Len(c.s) > int_max_str_digits
             \/ ~StartsAt(fn_in.prefix, 0, <<"R", "G", "B">>) )
              => fn_out = "ValueError"

\* C10 case: a component 7 written in as many digits as int() converts, a
\* space after the first comma; the string passed
C10_Witness ==
    /\ fn_pc = "done"
    /\ IsPlainRgbForm(fn_in)
    /\ fn_in.sep1 = <<",", " ">>
    /\ Len(fn_in.r.s) = int_max_str_digits
    /\ fn_in.r.v = 7
    /\ fn_out = "True"

----------------------------------------------------------------------------
(* validate_rgb_hex_string applied to enumerated inputs *)

\* Number of hexadecimal digits the pattern asks for (line 631)
HexLen == 6

\* A digit, a lower-case and an upper-case hexadecimal letter, and a letter
\* that is not hexadecimal
HexAlphabet == {"1", "b", "E", "g"}

HexPrefixes == { <<"#">>, <<>>, <<"x">> }

\* Nothing, a final newline, a final space
HexSuffixes == { <<>>, <<"\n">>, <<" ">> }

\* Bodies of n characters
HexBodies(n) == [1..n -> HexAlphabet]

\* The string an input record spells
HexString(in) == in.prefix \o in.body \o in.suffix

InitHex ==
    /\ ScriptIdle
    /\ fn_pc = "input"
    /\ \E n \in (HexLen - 1)..(HexLen + 1) :
          fn_in \in [prefix : HexPrefixes, body : HexBodies(n), suffix : HexSuffixes]
    /\ fn_out = "none"

ApplyValidateHex ==
    /\ fn_pc = "input"
    /\ fn_out' = validate_rgb_hex_string(HexString(fn_in))
    /\ fn_pc' = "done"
    /\ UNCHANGED fn_in
    /\ UNCHANGED <<script_vars, ctor_vars, agg_vars>>

NextHex == ApplyValidateHex

SpecHex == InitHex /\ [][NextHex]_vars

----------------------------------------------------------------------------
(* Claims about validate_rgb_hex_string, under SpecHex *)

\* The string is # followed by exactly six hexadecimal digits, nothing else
IsHexForm(s) ==
    /\ Len(s) = HexLen + 1
    /\ s[1] = "#"
    /\ \A k \in 2..(HexLen + 1) : s[k] \in HexDigits

\* C11 (as claimed): validate_rgb_hex_string returns True exactly for # and
\* six hexadecimal digits of either case; any other prefix, length, extra
\* character or digit raises.
C11_HexExactlySix ==
    fn_pc = "done" => (fn_out = "True" <=> IsHexForm(HexString(fn_in)))

\* C11 case: # and six hexadecimal digits of mixed case are accepted
C11_Witness ==
    /\ fn_pc = "done"
    /\ HexString(fn_in) = <<"#", "b", "E", "1", "1", "E", "b">>
    /\ fn_out = "True"

----------------------------------------------------------------------------
(* make_color_tbl *)

\* str(n) for 0 <= n <= 999999999
RECURSIVE str(_)
str(n) ==
    IF n < 10 THEN <<AsciiDigit(n)>>
    ELSE str(n \div 10) \o <<AsciiDigit(n % 10)>>

\* f"{int(ds)}": the number in ASCII digits without leading zeros
format_int(ds) ==
    IF int_raises(ds) THEN "ValueError"
    ELSE IF IsSmall(ds) THEN str(int(ds))
    ELSE int(ds)

COLORTBL == <<BS, "c", "o", "l", "o", "r", "t", "b", "l", ";">>

\* Offsets where r'\\colortbl;([^}]+)' matches: the group needs one character
ColorTblStarts(rtf_content_) ==
    {q \in 0..(Len(rtf_content_) - Len(COLORTBL) - 1) :
        /\ StartsAt(rtf_content_, q, COLORTBL)
        /\ At(rtf_content_, q + Len(COLORTBL)) /= "}"}

\* color_table_match.group(1), for a document where the search matches
color_table(rtf_content_) ==
    LET lo == Min(ColorTblStarts(rtf_content_)) + Len(COLORTBL)
    IN  Slice(rtf_content_, lo, lo + RunNot(rtf_content_, lo, {"}"}))

\* r'\\red(\d+)\\green(\d+)\\blue(\d+);' tried at offset p of the table.
\* A digit run is followed by a backslash or a semicolon, so the greedy
\* match is the only one.
color_entry_at(tbl, p) ==
    LET r0 == p + 4
        rn == Run(tbl, r0, Digits)
        g0 == r0 + rn + 6
        gn == Run(tbl, g0, Digits)
        b0 == g0 + gn + 5
        bn == Run(tbl, b0, Digits)
    IN  [matched |-> /\ StartsAt(tbl, p, <<BS, "r", "e", "d">>) /\ rn >= 1
                     /\ StartsAt(tbl, r0 + rn, <<BS, "g", "r", "e", "e", "n">>) /\ gn >= 1
                     /\ StartsAt(tbl, g0 + gn, <<BS, "b", "l", "u", "e">>) /\ bn >= 1
                     /\ StartsAt(tbl, b0 + bn, <<";">>),
         r |-> Slice(tbl, r0, r0 + rn),
         g |-> Slice(tbl, g0, g0 + gn),
         b |-> Slice(tbl, b0, b0 + bn)]

\* re.findall: the matches in ascending order (every match starts with \red
\* and holds no second \red, so matches never overlap)
color_entries(tbl) ==
    LET starts == Ascending({p \in 0..(Len(tbl) - 1) : color_entry_at(tbl, p).matched})
    IN  [k \in 1..Len(starts) |-> color_entry_at(tbl, starts[k])]

\* int() refuses a component of the entry
entry_raises(e) == int_raises(e.r) \/ int_raises(e.g) \/ int_raises(e.b)

\* f"RGB({int(r)},{int(g)},{int(b)})"
rgb_string_of(e) ==
    IF entry_raises(e) THEN "ValueError"
    ELSE <<"R", "G", "B", "(">> \o format_int(e.r) \o <<",">> \o format_int(e.g) \o <<",">>
        \o format_int(e.b) \o <<")">>

\* Mutant of slot_of: slots numbered from 0
slot_of_zero(i_) == i_

\* line 696: colors[i+1]
slot_of(i_) == i_ + 1

\* Mutant of no_color_table: an empty dict instead of the exception
no_color_table_empty == [kind |-> "dict", line |-> 0, colors |-> <<>>]

\* lines 683-684: raise ValueError when the search finds nothing
no_color_table == [kind |-> "ValueError", line |-> 684, colors |-> <<>>]

\* line 696: int() refuses a component of an entry, and the ValueError leaves
\* the function
bad_color_entry == [kind |-> "ValueError", line |-> 696, colors |-> <<>>]

\* Returns the dict (slot |-> RGB string) or raises ValueError (line 684 or
\* line 696)
make_color_tbl(rtf_content_) ==
    IF ColorTblStarts(rtf_content_) = {}
    THEN no_color_table
    ELSE LET entries == color_entries(color_table(rtf_content_))
         IN  IF \E k \in 1..Len(entries) : entry_raises(entries[k])
             THEN bad_color_entry
             ELSE [kind   |-> "dict",
                   line   |-> 0,
                   colors |-> [k \in {slot_of(n) : n \in 0..(Len(entries) - 1)} |->
                                  rgb_string_of(entries[k - slot_of(0) + 1])]]

----------------------------------------------------------------------------
(* make_color_tbl applied to enumerated documents *)

\* Largest number of colours declared in a generated colour table
MaxColors == 3

RGB_WHITE == <<"R", "G", "B", "(", "2", "5", "5", ",", "2", "5", "5", ",", "2", "5", "5", ")">>

RGB_GREY == <<"R", "G", "B", "(", "2", "6", ",", "0", ",", "7", ")">>

RGB_WIDE ==
    <<"R", "G", "B", "(", "1", "2", "3", "4", "5", "6", "7", "8", "9", "0", "1", ",",
      "0", ",", "0", ")">>

\* Declared colours: the components as written (the fifth in Arabic-Indic
\* and fullwidth digits, the sixth with a component of eleven digits), and
\* the RGB string they name
ColourCatalogue ==
    { [r |-> <<"2", "5", "5">>, g |-> <<"2", "5", "5">>, b |-> <<"2", "5", "5">>,
       rgb |-> RGB_WHITE],
      [r |-> <<"7", "4">>, g |-> <<"2", "1">>, b |-> <<"1", "4", "8">>, rgb |-> RGB_A],
      [r |-> <<"1", "1">>, g |-> <<"9", "3">>, b |-> <<"1", "6", "2">>, rgb |-> RGB_B],
      [r |-> <<"2", "6">>, g |-> <<"0">>, b |-> <<"0", "0", "7">>, rgb |-> RGB_GREY],
      [r |-> <<"U+0661", "1">>, g |-> <<"U+0669", "U+0663">>, b |-> <<"1", "U+FF16", "2">>,
       rgb |-> RGB_B],
      [r |-> <<"1", "2", "3", "4", "5", "6", "7", "8", "9", "0", "1">>, g |-> <<"0">>,
       b |-> <<"0">>, rgb |-> RGB_WIDE] }

RECURSIVE DeclarationsOfLen(_)
DeclarationsOfLen(n) ==
    IF n = 0 THEN {<<>>}
    ELSE {Append(d, c) : d \in DeclarationsOfLen(n - 1), c \in ColourCatalogue}

\* What may stand between two declarations
EntrySeparators == { <<>>, <<"\n">> }

\* What may stand between \colortbl; and the first declaration
BlockLeads == { <<>>, <<"\n">> }

\* Blocks of no declaration are among them: \colortbl; closed at once, and
\* \colortbl; followed by a line break
ColorTblInputs ==
    { [entries |-> d, sep |-> x, lead |-> l] :
        d \in UNION {DeclarationsOfLen(n) : n \in 0..MaxColors}, x \in EntrySeparators,
        l \in BlockLeads }

RGB_SEVEN == <<"R", "G", "B", "(", "0", ",", "7", ",", "0", ")">>

\* A colour whose green component 7 is written in n digits
LongColour(n) == [r |-> <<"0">>, g |-> Padded(n, "7"), b |-> <<"0">>, rgb |-> RGB_SEVEN]

\* Tables of two colours, white and a colour with a component of as many
\* digits as int() converts, and of one digit more
LongColorTblInputs ==
    { [entries |-> <<c, LongColour(n)>>, sep |-> <<>>, lead |-> <<>>] :
        c \in {x \in ColourCatalogue : x.rgb = RGB_WHITE},
        n \in {int_max_str_digits, int_max_str_digits + 1} }

\* \redR\greenG\blueB; and the separator
DeclarationText(c, sep) ==
    <<BS, "r", "e", "d">> \o c.r \o <<BS, "g", "r", "e", "e", "n">> \o c.g
        \o <<BS, "b", "l", "u", "e">> \o c.b \o <<";">> \o sep

RECURSIVE DeclarationsText(_, _)
DeclarationsText(d, sep) ==
    IF d = <<>> THEN <<>>
    ELSE DeclarationText(Head(d), sep) \o DeclarationsText(Tail(d), sep)

\* {\rtf1{\colortbl;<lead><declarations>}<body>}
DocWith(lead, d, sep, body) ==
    <<"{", BS, "r", "t", "f", "1", "{">> \o COLORTBL \o lead \o DeclarationsText(d, sep)
        \o <<"}">> \o body \o <<"}">>

DocOf(d, sep, body) == DocWith(<<>>, d, sep, body)

ColorTblDoc(in) == DocWith(in.lead, in.entries, in.sep, <<BS, "c", "f", "1", " ", "a">>)

InitColorTbl ==
    /\ ScriptIdle
    /\ fn_pc = "input"
    /\ fn_in \in ColorTblInputs \cup LongColorTblInputs
    /\ fn_out = "none"

ApplyMakeColorTbl ==
    /\ fn_pc = "input"
    /\ fn_out' = make_color_tbl(ColorTblDoc(fn_in))
    /\ fn_pc' = "done"
    /\ UNCHANGED fn_in
    /\ UNCHANGED <<script_vars, ctor_vars, agg_vars>>

NextColorTbl == ApplyMakeColorTbl

SpecColorTbl == InitColorTbl /\ [][NextColorTbl]_vars

----------------------------------------------------------------------------
(* Claims about make_color_tbl, under SpecColorTbl *)

\* C12 (as claimed): for a declaration block that lists N colours,
\* make_color_tbl returns a dict whose keys are exactly 1..N and whose slot k
\* holds the RGB string of the k-th declared colour; a colour declared twice
\* has two slots.
C12_SlotsInDeclarationOrder ==
    fn_pc = "done" =>
        /\ fn_out.kind = "dict"
        /\ DOMAIN fn_out.colors = 1..Len(fn_in.entries)
        /\ \A k \in 1..Len(fn_in.entries) : fn_out.colors[k] = fn_in.entries[k].rgb

\* Every component of the declared colour is written in no more digits than
\* int() converts
WithinIntLimit(c) ==
    \A ds \in {c.r, c.g, c.b} : Len(ds) <= int_max_str_digits

\* The declaration block has no character between \colortbl; and its
\* closing brace
EmptyBlock(in) == in.lead = <<>> /\ in.entries = <<>>

\* C12: for a declaration block that holds at least one character and lists
\* N colours, every component written in no more digits than int() converts,
\* make_color_tbl returns a dict whose keys are exactly 1..N and whose slot k
\* holds the RGB string of the k-th declared colour, a colour declared twice
\* having two slots; for a block closed right after \colortbl; and for a
\* block with a longer component it raises ValueError.
C12_SlotsWithinIntLimit ==
    fn_pc = "done" =>
        IF EmptyBlock(fn_in)
        THEN fn_out = no_color_table
        ELSE IF \A k \in 1..Len(fn_in.entries) : WithinIntLimit(fn_in.entries[k])
        THEN /\ fn_out.kind = "dict"
             /\ DOMAIN fn_out.colors = 1..Len(fn_in.entries)
             /\ \A k \in 1..Len(fn_in.entries) : fn_out.colors[k] = fn_in.entries[k].rgb
        ELSE fn_out = bad_color_entry

\* C12 case: three declarations, the first and third the same colour
C12_Witness ==
    /\ fn_pc = "done"
    /\ Len(fn_in.entries) = 3
    /\ fn_in.entries[1] = fn_in.entries[3]
    /\ fn_in.entries[2].rgb = RGB_A
    /\ fn_out.kind = "dict"
    /\ fn_out.colors = <<fn_in.entries[1].rgb, RGB_A, fn_in.entries[1].rgb>>

----------------------------------------------------------------------------
(* RTFParser.__init__ as a state machine *)

SOH == "SOH"
STX == "STX"
ETX == "ETX"
EOT == "EOT"

\* lines 57-63
UNLIKELY_CHARS == <<NUL, SOH, STX, ETX, EOT>>

\* The characters of a text
Chars(txt) == {txt[k] : k \in 1..Len(txt)}

\* Mutant of pick_marker_char: falls back to the first candidate
pick_marker_char_fallback(content) ==
    LET free == {k \in 1..Len(UNLIKELY_CHARS) : UNLIKELY_CHARS[k] \notin Chars(content)}
    IN  IF free = {} THEN UNLIKELY_CHARS[1] ELSE UNLIKELY_CHARS[Min(free)]

\* lines 128-132: the first candidate that re.search does not find, or None
pick_marker_char(content) ==
    LET free == {k \in 1..Len(UNLIKELY_CHARS) : UNLIKELY_CHARS[k] \notin Chars(content)}
    IN  IF free = {} THEN "None" ELSE UNLIKELY_CHARS[Min(free)]

\* A message __init__ printed at the given line before it returned
Printed(line) == Raise("printed", line, -1, <<>>)

\* Tagmaps given to the constructor.  valid says whether the key of the entry
\* is a colour specification of an accepted form.
CtorTagmaps ==
    { <<[kstr |-> TRUE, key |-> RGB_A, val |-> Expert, valid |-> TRUE],
        [kstr |-> TRUE, key |-> RGB_B, val |-> AI, valid |-> TRUE]>>,
      <<[kstr |-> TRUE, key |-> RGB_A, val |-> Expert, valid |-> TRUE],
        [kstr |-> TRUE, key |-> RGB_B, val |-> AI, valid |-> TRUE],
        [kstr |-> TRUE, key |-> <<"R", "G", "B", "(", "2", "5", "6", ",", "0", ",", "0", ")">>,
         val |-> Narrator, valid |-> FALSE]>>,
      <<[kstr |-> FALSE, key |-> <<"1">>,
         val |-> <<"R", "G", "B", "(", "2", "5", "6", ",", "0", ",", "0", ")">>,
         valid |-> FALSE]>>,
      <<>> }

\* Document bodies: plain coloured text; a tag at the very start; text that
\* holds \x00; text that holds \x00cf2; text that holds every candidate
\* character; a tag and its space at the very end; a tag outside the palette,
\* alone, with number 0, and after a tag of the palette; a tag ended by a
\* control word, with text that starts with a digit; a tag whose number 2 is
\* written as an Arabic-Indic digit; a tag whose number 1 is written in one
\* digit more than int() converts, and in as many digits as it converts; a
\* tag inside a group the converter drops; lines ended by \r\n and by a
\* lone \r; text written with a hex escape, \u, a control word and a control
\* symbol that stand for characters; a hex escape of a byte that cp1252
\* does not define.
CtorBodies ==
    { <<"a", BS, "c", "f", "1", " ", "b", BS, "c", "f", "2", " ", "c">>,
      <<BS, "c", "f", "1", " ", "a">>,
      <<"a", NUL, BS, "c", "f", "1", " ", "b">>,
      <<"a", NUL, "c", "f", "2", " ", "b", BS, "c", "f", "1", " ", "c">>,
      <<NUL, SOH, STX, ETX, EOT, BS, "c", "f", "1", " ", "a">>,
      <<"a", BS, "c", "f", "1", " ">>,
      <<BS, "c", "f", "3", " ", "a">>,
      <<"a", BS, "c", "f", "0", " ", "b">>,
      <<"a", BS, "c", "f", "1", " ", "b", BS, "c", "f", "3", " ", "c">>,
      <<"a", BS, "c", "f", "1", BS, "b", " ", "5", "b">>,
      <<"a", BS, "c", "f", "U+0662", " ", "b">>,
      <<"a", BS, "c", "f">> \o Padded(int_max_str_digits + 1, "1") \o <<" ", "b">>,
      <<"a", BS, "c", "f">> \o Padded(int_max_str_digits, "1") \o <<" ", "b">>,
      <<"a", "{", BS, "*", BS, "c", "f", "2", " ", "x", "}", BS, "c", "f", "1", " ", "b">>,
      <<"a", BS, "c", "f", "1", "\r", "\n", "b", "\r", BS, "c", "f", "2", " ", "c", "\r", "\n">>,
      <<"a", BS, "c", "f", "1", " ", BS, "'", "e", "9", BS, "u", "8", "3", "6", "4", " ", "?",
        "b", BS, "t", "a", "b", " ", "c", BS, "~", "d">>,
      <<"a", BS, "c", "f", "1", " ", "b", BS, "'", "8", "1", " ", "c">> }

TwoColours ==
    <<CHOOSE c \in ColourCatalogue : c.rgb = RGB_A, CHOOSE c \in ColourCatalogue : c.rgb = RGB_B>>

\* A document with the colour table of A and B, one with an empty colour
\* table, and one without a colour table, for every body; a document whose
\* colour table is written on lines ended by \r\n, and on lines ended by \r
CtorDocs ==
    {DocOf(TwoColours, <<>>, b) : b \in CtorBodies}
        \cup {DocOf(<<>>, <<>>, b) : b \in CtorBodies}
        \cup {<<"{", BS, "r", "t", "f", "1", " ">> \o b \o <<"}">> : b \in CtorBodies}
        \cup {DocOf(TwoColours, nl, <<BS, "c", "f", "1", " ", "a">>) :
                  nl \in {<<"\r", "\n">>, <<"\r">>}}

\* The files: every document, stored in a file that reads; two of the
\* documents in a file that opens and whose bytes do not decode; a path that
\* does not open
CtorFiles ==
    {Stored(d) : d \in CtorDocs}
        \cup {[readable |-> TRUE, decodes |-> FALSE, content |-> d] :
                  d \in {DocOf(TwoColours, <<>>, <<BS, "c", "f", "1", " ", "a">>),
                         <<"{", BS, "r", "t", "f", "1", " ", "a", "}">>}}
        \cup {NoFile}

InitCtor ==
    /\ rtf_content = <<>> /\ rtf_color_dict = <<>>
    /\ tagmap \in CtorTagmaps
    /\ collect_output \in BOOLEAN
    /\ pc = "idle" /\ tags_info = <<>> /\ clean_txt = <<>>
    /\ idx = 0 /\ cur_name = <<>> /\ i = 0 /\ jsonl_objs = <<>> /\ stdout = <<>>
    /\ ret = "none" /\ error = NoError
    /\ FnIdle
    /\ ctor_pc = "check_tagmap"
    /\ fname \in CtorFiles
    /\ opened = FALSE
    /\ self = [success |-> Unset, color_tag_marker_char |-> Unset, jsonl_objs |-> UnsetObjs]
    /\ ctor_error = NoError
    /\ AggIdle

\* lines 96-105: self.success = False, then check_tagmap.  The handler of
\* ValueError reads e.message, which a ValueError does not have: the
\* AttributeError leaves __init__.
CtorCheckTagmap ==
    /\ ctor_pc = "check_tagmap"
    /\ self' = [self EXCEPT !.success = "False"]
    /\ IF check_tagmap(tagmap) = "ValueError"
       THEN /\ ctor_pc' = "raised"
            /\ ctor_error' = Raise("AttributeError", 104, -1, <<>>)
       ELSE /\ ctor_pc' = "read"
            /\ UNCHANGED ctor_error
    /\ UNCHANGED <<fname, opened>>
    /\ UNCHANGED <<script_vars, fn_vars, agg_vars>>

\* The text from position p on with every \r\n and every other \r
\* replaced by \n, appended to out
RECURSIVE universal_newlines_from(_, _, _)
universal_newlines_from(text, p, out) ==
    IF p >= Len(text) THEN out
    ELSE IF At(text, p) = "\r"
    THEN universal_newlines_from(
             text,
             IF p + 1 < Len(text) /\ At(text, p + 1) = "\n" THEN p + 2 ELSE p + 1,
             Append(out, "\n"))
    ELSE LET n == RunNot(text, p, {"\r"})
         IN  universal_newlines_from(text, p + n, out \o Slice(text, p, p + n))

\* line 109: what fd.read() returns of a file opened in text mode.  A long
\* text is translated half by half, cut where no \r\n is parted.
RECURSIVE universal_newlines(_)
universal_newlines(text) ==
    IF Len(text) <= 32 THEN universal_newlines_from(text, 0, <<>>)
    ELSE LET mid == Len(text) \div 2
             cut == IF text[mid] = "\r" /\ text[mid + 1] = "\n" THEN mid + 1 ELSE mid
         IN  universal_newlines(SubSeq(text, 1, cut))
                 \o universal_newlines(SubSeq(text, cut + 1, Len(text)))

\* lines 107-113: read the file.  open() fails, or the file opens and
\* fd.read() fails to decode it: the message is printed and __init__
\* returns; otherwise rtf_content is the text read.
CtorReadFile ==
    /\ ctor_pc = "read"
    /\ opened' = fname.readable
    /\ IF fname.readable /\ fname.decodes
       THEN /\ rtf_content' = universal_newlines(fname.content)
            /\ ctor_pc' = "make_color_tbl"
            /\ UNCHANGED ctor_error
       ELSE /\ ctor_pc' = "returned"
            /\ ctor_error' = Printed(112)
            /\ UNCHANGED rtf_content
    /\ UNCHANGED <<fname, self>>
    /\ UNCHANGED <<rtf_color_dict, tagmap, collect_output, pc, tags_info, clean_txt,
                   idx, cur_name, i, jsonl_objs, stdout, ret, error>>
    /\ UNCHANGED <<fn_vars, agg_vars>>

\* lines 120-124: extract the colour table
CtorMakeColorTbl ==
    /\ ctor_pc = "make_color_tbl"
    /\ LET tbl == make_color_tbl(rtf_content)
       IN  IF tbl.kind = "ValueError"
           THEN /\ ctor_pc' = "returned"
                /\ ctor_error' = Printed(123)
                /\ UNCHANGED rtf_color_dict
           ELSE /\ ctor_pc' = "pick_marker"
                /\ rtf_color_dict' = tbl.colors
                /\ UNCHANGED ctor_error
    /\ UNCHANGED <<fname, opened, self>>
    /\ UNCHANGED <<rtf_content, tagmap, collect_output, pc, tags_info, clean_txt,
                   idx, cur_name, i, jsonl_objs, stdout, ret, error>>
    /\ UNCHANGED <<fn_vars, agg_vars>>

\* lines 126-135: pick the marker character, then call output_txt_script
CtorPickMarker ==
    /\ ctor_pc = "pick_marker"
    /\ self' = [self EXCEPT !.color_tag_marker_char = pick_marker_char(rtf_content)]
    /\ IF pick_marker_char(rtf_content) = "None"
       THEN /\ ctor_pc' = "returned"
            /\ ctor_error' = Printed(134)
            /\ UNCHANGED pc
       ELSE /\ ctor_pc' = "output"
            /\ pc' = "call"
            /\ UNCHANGED ctor_error
    /\ UNCHANGED <<fname, opened>>
    /\ UNCHANGED <<rtf_content, rtf_color_dict, tagmap, collect_output, tags_info,
                   clean_txt, idx, cur_name, i, jsonl_objs, stdout, ret, error>>
    /\ UNCHANGED <<fn_vars, agg_vars>>

\* lines 137-145: the result of output_txt_script becomes self.jsonl_objs;
\* any exception is printed
CtorFinish ==
    /\ ctor_pc = "output"
    /\ pc \in {"returned", "raised"}
    /\ IF pc = "returned"
       THEN /\ self' = [self EXCEPT !.jsonl_objs =
                           IF ret = "jsonl_objs"
                           THEN [kind |-> "list", list |-> jsonl_objs]
                           ELSE [kind |-> "True", list |-> <<>>]]
            /\ UNCHANGED ctor_error
       ELSE /\ ctor_error' = Printed(144)
            /\ UNCHANGED self
    /\ ctor_pc' = "returned"
    /\ UNCHANGED <<fname, opened>>
    /\ UNCHANGED <<script_vars, fn_vars, agg_vars>>

NextCtor ==
    \/ CtorCheckTagmap
    \/ CtorReadFile
    \/ CtorMakeColorTbl
    \/ CtorPickMarker
    \/ Call
    \/ ScanStep
    \/ FinalEmit
    \/ CtorFinish

SpecCtor == InitCtor /\ [][NextCtor]_vars

----------------------------------------------------------------------------
(* Claims about RTFParser.__init__, under SpecCtor *)

\* The document holds the control word \colortbl
HasColorDeclaration(doc) ==
    \E q \in 0..(Len(doc) - 1) : StartsAt(doc, q, <<BS, "c", "o", "l", "o", "r", "t", "b", "l">>)

\* No Turn was collected, printed or stored on the instance
NoTurn == jsonl_objs = <<>> /\ stdout = <<>> /\ self.jsonl_objs = UnsetObjs

\* __init__ has read the file: rtf_content is its text
FileRead == opened /\ fname.decodes

\* C13: for a document without a colour-declaration block no marker
\* character is ever selected, output_txt_script is never called and there
\* is no Turn; once the document is read make_color_tbl raises on it, and
\* once make_color_tbl has run __init__ has stopped there.
C13_NoColorTableStops ==
    (fname.readable /\ fname.decodes /\ ~HasColorDeclaration(fname.content)) =>
        /\ self.color_tag_marker_char = Unset
        /\ pc = "idle"
        /\ ctor_pc \notin {"pick_marker", "output"}
        /\ NoTurn
        /\ FileRead =>
              /\ ~HasColorDeclaration(rtf_content)
              /\ make_color_tbl(rtf_content).kind = "ValueError"
              /\ ctor_pc \in {"make_color_tbl", "returned"}
              /\ ctor_pc = "returned" => ctor_error = Printed(123)

\* C13 case: a document with colour tags and no colour table was refused
C13_Witness ==
    /\ ctor_pc = "returned"
    /\ ctor_error = Printed(123)
    /\ ~HasColorDeclaration(rtf_content)
    /\ CfStarts(rtf_content) /= {}

\* C14 (as claimed): in every parse the character written in place of the
\* backslash of the tags, and searched for by the scan, is the first
\* candidate that does not occur in the document, so it is absent from it.
C14_MarkerCharAbsent ==
    pc \in {"scan", "returned", "raised"} =>
        /\ marker_char_used = pick_marker_char(rtf_content)
        /\ marker_char_used \notin Chars(rtf_content)

\* The document holds every candidate character
HasAllCandidates(doc) == \A k \in 1..Len(UNLIKELY_CHARS) : UNLIKELY_CHARS[k] \in Chars(doc)

\* C15: for a document that holds every candidate character __init__ never
\* calls output_txt_script and there is no Turn; once the marker selection
\* has run it has found no character and __init__ has returned.
C15_NoSafeMarkerStops ==
    HasAllCandidates(fname.content) =>
        /\ pc = "idle"
        /\ ctor_pc /= "output"
        /\ NoTurn
        /\ ctor_pc \in {"returned", "raised"} => ctor_error /= NoError
        /\ self.color_tag_marker_char /= Unset =>
              /\ self.color_tag_marker_char = "None"
              /\ ctor_pc = "returned"
              /\ ctor_error = Printed(134)

\* C15 case: the marker selection ran on such a document and found nothing
C15_Witness ==
    /\ HasAllCandidates(rtf_content)
    /\ rtf_color_dict = <<RGB_A, RGB_B>>
    /\ ctor_pc = "returned"
    /\ ctor_error = Printed(134)

\* C16 (as claimed): in every parse the cleaned text holds as many protected
\* tags as the raw document holds colour tags, the i-th of the one being the
\* i-th of the other, and tags_info[i] never fails to exist.
C16_ScansAligned ==
    /\ pc \in {"scan", "returned"} =>
          /\ NumTags = Len(tags_info)
          /\ \A j \in 1..NumTags :
                NumberAt(clean_txt, CleanTags[j].start)
                    = NumberAt(rtf_content, tags_info[j].tag_start)
    /\ pc = "raised" => error.line \notin {271, 281}

\* The tagmap has an entry whose key is not an accepted colour specification
InvalidTagmap(tm) == \E k \in 1..Len(tm) : ~tm[k].kstr \/ ~tm[k].valid

\* C17 (as claimed): the phases run in order and a failed phase ends
\* __init__; with an invalid tagmap the file is never read and there is no
\* Turn; self.jsonl_objs is set only after all five phases succeeded.
C17_PhasesInOrder ==
    /\ InvalidTagmap(tagmap) => (~opened /\ NoTurn)
    /\ opened => check_tagmap(tagmap) = "True"
    /\ rtf_color_dict /= <<>> => opened
    /\ self.color_tag_marker_char /= Unset => make_color_tbl(rtf_content).kind = "dict"
    /\ pc /= "idle" => self.color_tag_marker_char \notin {Unset, "None"}
    /\ self.jsonl_objs /= UnsetObjs => (pc = "returned" /\ ctor_error = NoError)

----------------------------------------------------------------------------
(* DiscussionConverter.parse_fname *)

\* str.lower() of a string of ASCII letters: parse_fname lower-cases only
\* pieces matched by [a-z]+|[A-Z][a-z]* (line 191)
lower(s) ==
    [p \in 1..Len(s) |->
        IF s[p] \in UpperLetters
        THEN LowerSeq[CHOOSE k \in 1..26 : UpperSeq[k] = s[p]]
        ELSE s[p]]

\* Mutant of capitalize: the string as it is
capitalize_none(s) == s

\* str.capitalize() of a string of ASCII letters (a match of line 191): the
\* first character upper-cased, the rest lower-cased
capitalize(s) ==
    IF Len(s) = 0 THEN s
    ELSE (IF s[1] \in LowerLetters
          THEN <<UpperSeq[CHOOSE k \in 1..26 : LowerSeq[k] = s[1]]>>
          ELSE <<s[1]>>) \o lower(Tail(s))

\* Path(path).parts without the root: the components between slashes, in
\* order; pathlib drops the empty components (doubled and trailing slashes)
\* and the components that are a single dot
path_parts(path) ==
    LET starts == {k \in 1..Len(path) : path[k] /= "/" /\ (k = 1 \/ path[k - 1] = "/")}
        kept   == Ascending({k \in starts :
                                SubSeq(path, k, k - 1 + RunNot(path, k - 1, {"/"})) /= <<".">>})
    IN  [j \in 1..Len(kept) |->
            SubSeq(path, kept[j], kept[j] - 1 + RunNot(path, kept[j] - 1, {"/"}))]

\* Path(path).root: exactly two leading slashes are kept, any other number
\* of them is one
path_root(path) ==
    IF Len(path) >= 2 /\ path[1] = "/" /\ path[2] = "/" /\ (Len(path) = 2 \/ path[3] /= "/")
    THEN <<"/", "/">>
    ELSE IF Len(path) >= 1 /\ path[1] = "/" THEN <<"/">>
    ELSE <<>>

\* Path(path).name: the last component, '' for a path without one
path_name(path) ==
    LET parts == path_parts(path)
    IN  IF parts = <<>> THEN <<>> ELSE parts[Len(parts)]

\* PurePath.suffix of a name: what starts at its last dot, unless that dot
\* starts or ends the name
name_suffix(name) ==
    LET dots == {k \in 1..Len(name) : name[k] = "."}
        last == CHOOSE k \in dots : \A d \in dots : d <= k
    IN  IF dots = {} THEN <<>>
        ELSE IF 1 < last /\ last < Len(name) THEN SubSeq(name, last, Len(name))
        ELSE <<>>

\* Path(path).stem: the name without its suffix
path_stem(path) ==
    LET name == path_name(path)
    IN  SubSeq(name, 1, Len(name) - Len(name_suffix(name)))

\* re.findall(r'[a-z]+|[A-Z][a-z]*', s) from offset p on
RECURSIVE name_parts_from(_, _, _)
name_parts_from(st, p, acc) ==
    IF p >= Len(st) THEN acc
    ELSE IF At(st, p) \in LowerLetters
    THEN LET n == Run(st, p, LowerLetters)
         IN  name_parts_from(st, p + n, Append(acc, Slice(st, p, p + n)))
    ELSE IF At(st, p) \in UpperLetters
    THEN LET n == 1 + Run(st, p + 1, LowerLetters)
         IN  name_parts_from(st, p + n, Append(acc, Slice(st, p, p + n)))
    ELSE name_parts_from(st, p + 1, acc)

RECURSIVE join(_)
join(parts) == IF parts = <<>> THEN <<>> ELSE Head(parts) \o join(Tail(parts))

\* Mutant of too_few_parts: one part is enough
too_few_parts_one(n) == n < 1

\* line 192: len(name_parts) < 2
too_few_parts(n) == n < 2

\* Returns (name, defense) or raises ValueError (line 193)
parse_fname(fname_) ==
    LET name_parts == name_parts_from(path_stem(fname_), 0, <<>>)
    IN  IF too_few_parts(Len(name_parts))
        THEN [kind |-> "ValueError", name |-> <<>>, defense |-> <<>>]
        ELSE [kind    |-> "tuple",
              name    |-> capitalize(name_parts[1]),
              defense |-> lower(join(Tail(name_parts)))]

----------------------------------------------------------------------------
(* parse_fname applied to enumerated file names *)

\* Largest number of alphabetic runs in a generated file name
MaxRuns == 3

\* How a name may start: the text, and the run it holds
FirstPieces ==
    { [txt |-> <<"m", "a", "r", "c", "e", "l">>, run |-> <<"m", "a", "r", "c", "e", "l">>],
      [txt |-> <<"M", "e", "g", "a", "n">>, run |-> <<"M", "e", "g", "a", "n">>] }

\* How it may go on: a capitalised word, a single capital, or a lower-case
\* word after an underscore
LaterPieces ==
    { [txt |-> <<"C", "h", "a", "r", "a", "c", "t", "e", "r">>,
       run |-> <<"C", "h", "a", "r", "a", "c", "t", "e", "r">>],
      [txt |-> <<"D">>, run |-> <<"D">>],
      [txt |-> <<"_", "d", "e", "n", "i", "a", "l">>, run |-> <<"d", "e", "n", "i", "a", "l">>] }

RECURSIVE PiecesOfLen(_)
PiecesOfLen(n) ==
    IF n = 0 THEN {<<>>}
    ELSE IF n = 1 THEN {<<f>> : f \in FirstPieces}
    ELSE {Append(ps, l) : ps \in PiecesOfLen(n - 1), l \in LaterPieces}

\* What stands before the name: nothing, directories (one with a dot in its
\* name, one reached through a single dot, the parent directory, a doubled
\* slash), and the dot of a hidden file
FnameDirs ==
    { <<>>, <<"/", "d", "/">>, <<"2", ".", "7", "/">>, <<".", "/">>, <<"a", "/", ".", "/">>,
      <<".", ".", "/">>, <<"/", "/", "d", "/", "/">>, <<".">> }

\* The extension; a dot that ends the name is no extension
FnameExts == { <<>>, <<".", "r", "t", "f">>, <<".", "j", "s", "o", "n", "l">>, <<".">> }

\* What stands after the name: nothing, a slash, a slash and a single dot
FnameTails == { <<>>, <<"/">>, <<"/", ".">>, <<"/", ".", "/">> }

\* A name with no piece is written with a digit, so that the extension does
\* not become the name
FnameInputs ==
    { [dir |-> d, pieces |-> ps, ext |-> x, tail |-> t] :
        d \in FnameDirs, ps \in UNION {PiecesOfLen(n) : n \in 0..MaxRuns}, x \in FnameExts,
        t \in FnameTails }

RECURSIVE PiecesText(_)
PiecesText(ps) == IF ps = <<>> THEN <<>> ELSE Head(ps).txt \o PiecesText(Tail(ps))

\* The file name an input record spells
FnameString(in) ==
    in.dir \o (IF in.pieces = <<>> THEN <<"7">> ELSE PiecesText(in.pieces)) \o in.ext
        \o in.tail

InitFname ==
    /\ ScriptIdle
    /\ fn_pc = "input"
    /\ fn_in \in FnameInputs
    /\ fn_out = "none"

ApplyParseFname ==
    /\ fn_pc = "input"
    /\ fn_out' = parse_fname(FnameString(fn_in))
    /\ fn_pc' = "done"
    /\ UNCHANGED fn_in
    /\ UNCHANGED <<script_vars, ctor_vars, agg_vars>>

NextFname == ApplyParseFname

SpecFname == InitFname /\ [][NextFname]_vars

----------------------------------------------------------------------------
(* Claims about parse_fname, under SpecFname *)

RECURSIVE LaterRunsLower(_)
LaterRunsLower(ps) ==
    IF ps = <<>> THEN <<>> ELSE lower(Head(ps).run) \o LaterRunsLower(Tail(ps))

\* The first run with a capital first letter
FirstRunCapitalised(ps) ==
    IF ps[1].run = <<"m", "a", "r", "c", "e", "l">>
    THEN <<"M", "a", "r", "c", "e", "l">>
    ELSE ps[1].run

\* C18: for a name of two or more runs, whatever its directory and
\* extension, parse_fname returns the first run capitalised and the
\* remaining runs concatenated in lower case.
C18_NameAndCategory ==
    (fn_pc = "done" /\ Len(fn_in.pieces) >= 2) =>
        /\ fn_out.kind = "tuple"
        /\ fn_out.name = FirstRunCapitalised(fn_in.pieces)
        /\ fn_out.defense = LaterRunsLower(Tail(fn_in.pieces))

\* C18 case: /d/marcelCharacterD.rtf gives ('Marcel', 'characterd')
C18_Witness ==
    /\ fn_pc = "done"
    /\ FnameString(fn_in) = <<"/", "d", "/", "m", "a", "r", "c", "e", "l", "C", "h", "a", "r",
                              "a", "c", "t", "e", "r", "D", ".", "r", "t", "f">>
    /\ fn_out = [kind |-> "tuple", name |-> <<"M", "a", "r", "c", "e", "l">>,
                 defense |-> <<"c", "h", "a", "r", "a", "c", "t", "e", "r", "d">>]

\* C19: parse_fname raises exactly for the names with fewer than two runs
C19_FewerThanTwoRuns ==
    fn_pc = "done" => (fn_out.kind = "ValueError" <=> Len(fn_in.pieces) < 2)

\* C19 case: an all-lower-case name with directory and extension is refused
C19_Witness ==
    /\ fn_pc = "done"
    /\ FnameString(fn_in) = <<"/", "d", "/", "m", "a", "r", "c", "e", "l", ".", "r", "t", "f">>
    /\ fn_out.kind = "ValueError"

----------------------------------------------------------------------------
(* DiscussionConverter.__init__ as a state machine *)

\* Largest number of files in a generated rtf_dir
MaxFiles == 3

\* str.endswith(suffix)
EndsWith(st, suffix) ==
    /\ Len(st) >= Len(suffix)
    /\ SubSeq(st, Len(st) - Len(suffix) + 1, Len(st)) = suffix

DOT_RTF == <<".", "r", "t", "f">>

DOT_JSONL == <<".", "j", "s", "o", "n", "l">>

MEGAN_RTF == <<"m", "e", "g", "a", "n", "D", "e", "n", "i", "a", "l", ".", "r", "t", "f">>

TAMARA_RTF == <<"t", "a", "m", "a", "r", "a", "D", "e", "n", "i", "a", "l", ".", "r", "t", "f">>

MARCEL_RTF == <<"m", "a", "r", "c", "e", "l", "C", "h", "a", "r", "a", "c", "t", "e", "r", "D", "e", "f", "e", "n", "s", "e", ".", "r", "t", "f">>

BRIAN_RTF == <<"b", "r", "i", "a", "n", "D", "e", "n", "i", "a", "l", ".", "r", "t", "f">>

CARLA_RTF == <<"c", "a", "r", "l", "a", "D", "e", "n", "i", "a", "l", ".", "r", "t", "f">>

\* A file named ..rtf
DOTS_RTF == <<".", ".", "r", "t", "f">>

NOTES_TXT == <<"n", "o", "t", "e", "s", ".", "t", "x", "t">>

MEGAN_JSONL == <<"m", "e", "g", "a", "n", "D", "e", "n", "i", "a", "l", ".", "j", "s", "o", "n", "l">>

ADAM_JSONL == <<"a", "d", "a", "m", "D", "e", "n", "i", "a", "l", ".", "j", "s", "o", "n", "l">>

\* The rtf_dir argument: the name of the directory of the documents
RTF_DIR == <<"i", "n">>

\* The jsonl_dir argument: a directory beside rtf_dir, or the current
\* directory
OUT_DIR == <<"o", "u", "t">>

CUR_DIR == <<".">>

\* lines 96-97: the name of a temporary directory made under /tmp
TMP_DIR == <<"/", "t", "m", "p", "/", "d", "i", "s", "c", "u", "s", "s", "i", "o", "n", "_", "c", "o", "n", "v", "e", "r", "t", "e", "r", "_", "k", "3">>

\* lines 109-112: the tagmap of the converter
AggTagmap ==
    <<[kstr |-> TRUE, key |-> RGB_A, val |-> Expert, valid |-> TRUE],
      [kstr |-> TRUE, key |-> RGB_B, val |-> AI, valid |-> TRUE]>>

\* The files rtf_dir may hold: two documents that parse, one without a
\* colour table, one with a colour number outside its table, one whose
\* bytes do not decode, a document that parses in a file named ..rtf, and
\* a file that is no .rtf file
AggFiles ==
    (MEGAN_RTF :> Stored(DocOf(TwoColours, <<>>,
                               <<BS, "c", "f", "1", " ", "a", BS, "c", "f", "2", " ", "b">>)))
    @@ (TAMARA_RTF :> Stored(DocOf(TwoColours, <<>>, <<BS, "c", "f", "1", " ", "c">>)))
    @@ (MARCEL_RTF :> Stored(<<"{", BS, "r", "t", "f", "1", " ", BS, "c", "f", "1", " ", "d", "}">>))
    @@ (BRIAN_RTF :> Stored(DocOf(TwoColours, <<>>, <<BS, "c", "f", "3", " ", "a">>)))
    @@ (CARLA_RTF :> [readable |-> TRUE, decodes |-> FALSE,
                      content |-> DocOf(TwoColours, <<>>, <<BS, "c", "f", "1", " ", "e">>)])
    @@ (DOTS_RTF :> Stored(DocOf(TwoColours, <<>>, <<BS, "c", "f", "2", " ", "f">>)))
    @@ (NOTES_TXT :> Stored(<<"n">>))

RtfDirs ==
    { [n \in names |-> AggFiles[n]] :
        names \in {ns \in SUBSET DOMAIN AggFiles : Cardinality(ns) <= MaxFiles} }

\* json.dumps(line) + '\n': the text of one line of a .jsonl file
json_line(obj) == [valid |-> TRUE, json |-> obj]

\* A line left by an earlier run
OldLine == json_line(jsonl_obj(Expert, <<"o">>))

\* A line that is no JSON text
BadLine == [valid |-> FALSE, json |-> jsonl_obj(<<>>, <<>>)]

\* os.path.join(a, b)
os_path_join(a, b) ==
    IF b /= <<>> /\ b[1] = "/" THEN b
    ELSE IF a = <<>> \/ a[Len(a)] = "/" THEN a \o b
    ELSE a \o <<"/">> \o b

\* '/'.join(parts)
RECURSIVE slash_join(_)
slash_join(parts) ==
    IF parts = <<>> THEN <<>>
    ELSE IF Len(parts) = 1 THEN parts[1]
    ELSE Head(parts) \o <<"/">> \o slash_join(Tail(parts))

\* The file a path names: paths that differ in doubled slashes and in
\* components that are a single dot name the same file
file_key(path) == path_root(path) \o slash_join(path_parts(path))

\* os.listdir(dir): the names of the files of the directory
os_listdir(fs, dir) ==
    { path_name(p) : p \in {q \in DOMAIN fs : q = file_key(os_path_join(dir, path_name(q)))} }

\* What the run is given: no jsonl_dir; the directory out, empty or with a
\* file of an earlier run; the current directory
JsonlDirArgs ==
    { [is_tmp |-> TRUE, jsonl_dir |-> <<>>, files |-> NoFiles] }
        \cup { [is_tmp |-> FALSE, jsonl_dir |-> OUT_DIR, files |-> fs] :
                  fs \in { NoFiles,
                           os_path_join(OUT_DIR, ADAM_JSONL) :> <<OldLine>>,
                           os_path_join(OUT_DIR, MEGAN_JSONL) :> <<OldLine>>,
                           os_path_join(OUT_DIR, ADAM_JSONL) :> <<BadLine>> } }
        \cup { [is_tmp |-> FALSE, jsonl_dir |-> CUR_DIR, files |-> NoFiles] }

InitAgg ==
    /\ rtf_content = <<>> /\ rtf_color_dict = <<>> /\ tagmap = <<>>
    /\ collect_output = FALSE /\ pc = "idle" /\ tags_info = <<>> /\ clean_txt = <<>>
    /\ idx = 0 /\ cur_name = <<>> /\ i = 0 /\ jsonl_objs = <<>> /\ stdout = <<>>
    /\ ret = "none" /\ error = NoError
    /\ CtorIdle
    /\ FnIdle
    /\ agg_pc = "start"
    /\ rtf_dir \in RtfDirs
    /\ \E a \in JsonlDirArgs :
          /\ jsonl_dir_is_tmp = a.is_tmp
          /\ jsonl_dir = a.jsonl_dir
          /\ files = a.files
    /\ pending = {}
    /\ cur_rtf = <<>>
    /\ listed = {}
    /\ discussion = Unset
    /\ agg_error = NoError

\* lines 147-150: the finally clause, entered with the pending exception err.
\* jsonl_dir is the directory's name, a str: cleanup() raises AttributeError.
Finally(err) ==
    IF jsonl_dir_is_tmp
    THEN agg_pc' = "raised" /\ agg_error' = Raise("AttributeError", 150, -1, <<>>)
    ELSE IF err = NoError
    THEN agg_pc' = "done" /\ agg_error' = NoError
    ELSE agg_pc' = "raised" /\ agg_error' = err

\* lines 217-222: the paths of rtf_dir that end in .rtf
mk_rtf_path_iter(names) ==
    {p \in {os_path_join(RTF_DIR, n) : n \in names} : EndsWith(p, DOT_RTF)}

\* lines 91-114: the directories, the tagmap, the .rtf paths.  Without a
\* jsonl_dir, jsonl_dir becomes the name of a new temporary directory.
AggStart ==
    /\ agg_pc = "start"
    /\ agg_pc' = "convert"
    /\ jsonl_dir' = (IF jsonl_dir_is_tmp THEN TMP_DIR ELSE jsonl_dir)
    /\ pending' = mk_rtf_path_iter(DOMAIN rtf_dir)
    /\ UNCHANGED <<rtf_dir, jsonl_dir_is_tmp, files, cur_rtf, listed, discussion,
                   agg_error>>
    /\ UNCHANGED <<script_vars, fn_vars, ctor_vars>>

\* line 206: (Path(jsonl_dir) / Path(rtf_path).stem).with_suffix('.jsonl').
\* The components of jsonl_dir and of the stem; the suffix of the last one
\* is replaced; with_suffix raises ValueError on a path without a name.
jsonl_path(jsonl_dir_, rtf_path) ==
    LET parts    == path_parts(jsonl_dir_) \o path_parts(path_stem(rtf_path))
        name     == IF parts = <<>> THEN <<>> ELSE parts[Len(parts)]
        new_name == SubSeq(name, 1, Len(name) - Len(name_suffix(name))) \o DOT_JSONL
    IN  IF name = <<>>
        THEN [kind |-> "ValueError", path |-> <<>>]
        ELSE [kind |-> "path",
              path |-> path_root(jsonl_dir_)
                           \o slash_join(SubSeq(parts, 1, Len(parts) - 1) \o <<new_name>>)]

\* The file of rtf_dir that rtf_path names
rtf_file(rtf_path) == rtf_dir[SubSeq(rtf_path, Len(RTF_DIR) + 2, Len(rtf_path))]

\* lines 118-119 and 206-209: the next path, its jsonl_path, and the call of
\* RTFParser
AggConvertNext ==
    /\ agg_pc = "convert"
    /\ \E rtf_path \in pending :
          /\ cur_rtf' = rtf_path
          /\ IF jsonl_path(jsonl_dir, rtf_path).kind = "ValueError"
             THEN /\ Finally(Raise("ValueError", 206, -1, <<>>))
                  /\ UNCHANGED <<script_vars, ctor_vars>>
             ELSE /\ agg_pc' = "parsing"
                  /\ fname' = rtf_file(rtf_path)
                  /\ tagmap' = AggTagmap
                  /\ collect_output' = TRUE
                  /\ rtf_content' = <<>> /\ rtf_color_dict' = <<>>
                  /\ pc' = "idle" /\ tags_info' = <<>> /\ clean_txt' = <<>>
                  /\ idx' = 0 /\ cur_name' = <<>> /\ i' = 0 /\ stdout' = <<>>
                  /\ ret' = "none" /\ error' = NoError
                  /\ UNCHANGED jsonl_objs
                  /\ ctor_pc' = "check_tagmap"
                  /\ opened' = FALSE
                  /\ self' = [success |-> Unset, color_tag_marker_char |-> Unset,
                              jsonl_objs |-> UnsetObjs]
                  /\ ctor_error' = NoError
                  /\ UNCHANGED agg_error
    /\ UNCHANGED <<rtf_dir, jsonl_dir_is_tmp, jsonl_dir, files, pending, listed, discussion>>
    /\ UNCHANGED fn_vars

\* lines 207-211: read jsonl_objs off the new parser and write the file
AggWriteJsonl ==
    /\ agg_pc = "parsing"
    /\ ctor_pc \in {"returned", "raised"}
    /\ IF ctor_pc = "raised"
       THEN /\ Finally(ctor_error)
            /\ UNCHANGED <<files, pending>>
       ELSE IF self.jsonl_objs.kind = Unset
       THEN \* the attribute was never assigned: AttributeError at line 209
            /\ Finally(Raise("AttributeError", 209, -1, <<>>))
            /\ UNCHANGED <<files, pending>>
       ELSE /\ LET written == file_key(jsonl_path(jsonl_dir, cur_rtf).path)
               IN  files' =
                      [p \in DOMAIN files \cup {written} |->
                          IF p = written
                          THEN [k \in 1..Len(self.jsonl_objs.list) |->
                                   json_line(self.jsonl_objs.list[k])]
                          ELSE files[p]]
            /\ pending' = pending \ {cur_rtf}
            /\ agg_pc' = "convert"
            /\ UNCHANGED agg_error
    /\ UNCHANGED <<rtf_dir, jsonl_dir_is_tmp, jsonl_dir, cur_rtf, listed, discussion>>
    /\ UNCHANGED <<script_vars, fn_vars, ctor_vars>>

\* lines 124-127: the empty discussion, and the .jsonl names of jsonl_dir
AggListJsonl ==
    /\ agg_pc = "convert"
    /\ pending = {}
    /\ discussion' = <<>>
    /\ listed' = {n \in os_listdir(files, jsonl_dir) : EndsWith(n, DOT_JSONL)}
    /\ agg_pc' = "build"
    /\ UNCHANGED <<rtf_dir, jsonl_dir_is_tmp, jsonl_dir, files, pending, cur_rtf, agg_error>>
    /\ UNCHANGED <<script_vars, fn_vars, ctor_vars>>

\* lines 129-141: one record per listed file
AggAddRecord ==
    /\ agg_pc = "build"
    /\ \E jsonl_file \in listed :
          LET parsed          == parse_fname(jsonl_file)
              jsonl_full_path == os_path_join(jsonl_dir, jsonl_file)
          IN  IF parsed.kind = "ValueError"
              THEN /\ Finally(Raise("ValueError", 193, -1, <<>>))
                   /\ UNCHANGED <<listed, discussion>>
              ELSE /\ discussion' = Append(discussion,
                                       [clientName   |-> parsed.name,
                                        defense      |-> parsed.defense,
                                        conversation |-> files[file_key(jsonl_full_path)]])
                   /\ listed' = listed \ {jsonl_file}
                   /\ UNCHANGED <<agg_pc, agg_error>>
    /\ UNCHANGED <<rtf_dir, jsonl_dir_is_tmp, jsonl_dir, files, pending, cur_rtf>>
    /\ UNCHANGED <<script_vars, fn_vars, ctor_vars>>

\* lines 143-150: no outfile; the finally clause
AggFinish ==
    /\ agg_pc = "build"
    /\ listed = {}
    /\ Finally(NoError)
    /\ UNCHANGED <<rtf_dir, jsonl_dir_is_tmp, jsonl_dir, files, pending, cur_rtf, listed,
                   discussion>>
    /\ UNCHANGED <<script_vars, fn_vars, ctor_vars>>

NextAgg ==
    \/ AggStart
    \/ AggConvertNext
    \/ CtorCheckTagmap
    \/ CtorReadFile
    \/ CtorMakeColorTbl
    \/ CtorPickMarker
    \/ Call
    \/ ScanStep
    \/ FinalEmit
    \/ CtorFinish
    \/ AggWriteJsonl
    \/ AggListJsonl
    \/ AggAddRecord
    \/ AggFinish

SpecAgg == InitAgg /\ [][NextAgg]_vars

----------------------------------------------------------------------------
(* Claims about DiscussionConverter.__init__, under SpecAgg *)

\* The source documents of rtf_dir
Sources == {n \in DOMAIN rtf_dir : EndsWith(n, DOT_RTF)}

\* C20 (as claimed): after a completed run the discussion holds one record
\* for each source document of rtf_dir and no other, whatever jsonl_dir
\* held before the run.
C20_OneRecordPerSource ==
    agg_pc = "done" =>
        /\ Len(discussion) = Cardinality(Sources)
        /\ \A n \in Sources :
              \E k \in 1..Len(discussion) :
                  /\ discussion[k].clientName = parse_fname(n).name
                  /\ discussion[k].defense = parse_fname(n).defense

\* line 159: one object read back from a line of a .jsonl file
json_loads(line) == line.json

\* lines 156-166: the record of one intermediate file.  parse_fname raises
\* ValueError (line 193), the file does not open (line 158), or a line of
\* it is no JSON text (line 159); otherwise the record is returned.
build_one_case_discussion(jsonl_file) ==
    LET parsed == parse_fname(jsonl_file)
        lines  == files[file_key(jsonl_file)]
        record == [clientName   |-> parsed.name,
                   defense      |-> parsed.defense,
                   conversation |-> [k \in 1..Len(lines) |-> json_loads(lines[k])]]
        none   == [clientName |-> <<>>, defense |-> <<>>, conversation |-> <<>>]
    IN  IF parsed.kind = "ValueError"
        THEN [kind |-> "ValueError", line |-> 193, value |-> none]
        ELSE IF file_key(jsonl_file) \notin DOMAIN files
        THEN [kind |-> "FileNotFoundError", line |-> 158, value |-> none]
        ELSE IF \E k \in 1..Len(lines) : ~lines[k].valid
        THEN [kind |-> "InvalidLineError", line |-> 159, value |-> none]
        ELSE [kind |-> "dict", line |-> 0, value |-> record]

\* C21 (as claimed): every record of the finished discussion is the record
\* that build_one_case_discussion returns for one intermediate file, its
\* conversation being the Turn objects of that file in order.
C21_ConversationIsTurns ==
    agg_pc = "done" =>
        \A k \in 1..Len(discussion) :
            \E jsonl_file \in DOMAIN files :
                LET built == build_one_case_discussion(jsonl_file)
                IN  built.kind = "dict" /\ discussion[k] = built.value

\* lines 105, 113, 124, 135, 145: the parser returned or raised before it
\* assigned jsonl_objs
ParseFailed ==
    /\ ctor_pc \in {"returned", "raised"}
    /\ (ctor_pc = "raised" \/ self.jsonl_objs.kind = Unset)

\* C22 (as claimed): when the parse of the current document has failed, the
\* aggregator drops that document and goes on with the remaining ones.
C22_FailedParseSkipped ==
    [][(agg_pc = "parsing" /\ ParseFailed)
           => (agg_pc' = "convert" /\ pending' = pending \ {cur_rtf})]_vars

\* The documents of AggFiles that parse with AggTagmap
ParsingSources == {MEGAN_RTF, TAMARA_RTF, DOTS_RTF}

----------------------------------------------------------------------------
(* Parsers constructed one after another, under SpecSeq *)

\* The documents parsed first, and again after another one: documents that
\* parse, with Unix and with other line ends and with a tag in a dropped
\* group; a document with a colour number outside its table; a document
\* without colour table; a file that does not decode; a path that does not
\* open
SeqFiles ==
    { Stored(DocOf(TwoColours, <<>>,
                   <<"a", BS, "c", "f", "1", " ", "b", BS, "c", "f", "2", " ", "c">>)),
      Stored(DocOf(TwoColours, <<>>,
                   <<"a", BS, "c", "f", "1", "\r", "\n", "b", "\r", BS, "c", "f", "2", " ",
                     "c", "\r", "\n">>)),
      Stored(DocOf(TwoColours, <<>>,
                   <<"a", "{", BS, "*", BS, "c", "f", "2", " ", "x", "}", BS, "c", "f", "1",
                     " ", "b">>)),
      Stored(DocOf(TwoColours, <<>>,
                   <<"a", BS, "c", "f", "1", " ", "b", BS, "c", "f", "3", " ", "c">>)),
      Stored(<<"{", BS, "r", "t", "f", "1", " ", BS, "c", "f", "1", " ", "a", "}">>),
      [readable |-> TRUE, decodes |-> FALSE,
       content |-> DocOf(TwoColours, <<>>, <<BS, "c", "f", "1", " ", "a">>)],
      NoFile }

\* What a constructor that has ended leaves: the instance, how it ended and
\* what it printed
Outcome == [self |-> self, ctor_error |-> ctor_error, stdout |-> stdout]

\* The first parser is constructed; fn_in holds the two files and the
\* tagmap that every parser is given, fn_out the outcomes so far
InitSeq ==
    /\ rtf_content = <<>> /\ rtf_color_dict = <<>>
    /\ collect_output \in BOOLEAN
    /\ pc = "idle" /\ tags_info = <<>> /\ clean_txt = <<>>
    /\ idx = 0 /\ cur_name = <<>> /\ i = 0 /\ jsonl_objs = <<>> /\ stdout = <<>>
    /\ ret = "none" /\ error = NoError
    /\ \E first \in SeqFiles, second \in CtorFiles, tm \in CtorTagmaps :
          /\ fn_in = [first |-> first, second |-> second, tagmap |-> tm]
          /\ tagmap = tm
          /\ fname = first
    /\ fn_pc = "first"
    /\ fn_out = <<>>
    /\ ctor_pc = "check_tagmap"
    /\ opened = FALSE
    /\ self = [success |-> Unset, color_tag_marker_char |-> Unset, jsonl_objs |-> UnsetObjs]
    /\ ctor_error = NoError
    /\ AggIdle

\* The constructor has ended and the next parser is constructed, with the
\* same tagmap and mode: on the second file after the first parse, on the
\* first file again after the second
SeqConstruct ==
    /\ fn_pc \in {"first", "second"}
    /\ ctor_pc \in {"returned", "raised"}
    /\ fn_out' = Append(fn_out, Outcome)
    /\ fn_pc' = (IF fn_pc = "first" THEN "second" ELSE "third")
    /\ fname' = (IF fn_pc = "first" THEN fn_in.second ELSE fn_in.first)
    /\ rtf_content' = <<>> /\ rtf_color_dict' = <<>>
    /\ pc' = "idle" /\ tags_info' = <<>> /\ clean_txt' = <<>>
    /\ idx' = 0 /\ cur_name' = <<>> /\ i' = 0 /\ stdout' = <<>>
    /\ ret' = "none" /\ error' = NoError
    /\ ctor_pc' = "check_tagmap"
    /\ opened' = FALSE
    /\ self' = [success |-> Unset, color_tag_marker_char |-> Unset, jsonl_objs |-> UnsetObjs]
    /\ ctor_error' = NoError
    /\ UNCHANGED <<tagmap, collect_output, jsonl_objs, fn_in>>
    /\ UNCHANGED agg_vars

NextSeq ==
    \/ CtorCheckTagmap
    \/ CtorReadFile
    \/ CtorMakeColorTbl
    \/ CtorPickMarker
    \/ Call
    \/ ScanStep
    \/ FinalEmit
    \/ CtorFinish
    \/ SeqConstruct

SpecSeq == InitSeq /\ [][NextSeq]_vars

\* The constructor of the last parser, on the first file again, has ended
ParsedAgain == fn_pc = "third" /\ ctor_pc \in {"returned", "raised"}

\* C23: throughout every parse, ended or not, returned or raised, the
\* tagmap is the one the caller gave and the colour table is the one
\* make_color_tbl extracted from the document; and a document parsed again
\* after another one, with the same tagmap, ends as it ended when it was
\* parsed first: the same Turns on the instance, the same output printed,
\* the same failure.
C23_ParseIsolated ==
    /\ tagmap = fn_in.tagmap
    /\ pc /= "idle" => rtf_color_dict = make_color_tbl(rtf_content).colors
    /\ ParsedAgain => Outcome = fn_out[1]

\* C23 case: a document was parsed to two Turns or more, then the parse of
\* another document failed, then the first document was parsed again
C23_Witness ==
    /\ ParsedAgain
    /\ self.jsonl_objs.kind = "list"
    /\ Len(self.jsonl_objs.list) >= 2
    /\ fn_in.second /= fn_in.first
    /\ fn_out[2].ctor_error /= NoError
    /\ fn_out[2].self.jsonl_objs = UnsetObjs

----------------------------------------------------------------------------
(* Further claims about RTFParser.__init__, under SpecCtor *)

\* C24 (as claimed): once the constructor has ended, success is True when
\* every phase completed and the Turns were produced, and False when the
\* constructor stopped in a failed phase.
C24_SuccessTellsOutcome ==
    ctor_pc \in {"returned", "raised"} =>
        self.success = (IF self.jsonl_objs.kind /= Unset THEN "True" ELSE "False")

----------------------------------------------------------------------------
(* color_tag_gen and _next_rtf_color_tag_idx applied to raw texts *)

\* Largest number of pieces in a generated raw text
MaxPieces == 3

\* Pieces of raw text: plain characters, a digit, colour tags with one and
\* two digits and with number 0, a colour tag whose number 2 is written as an
\* Arabic-Indic digit, one with a number of eleven digits, \cf without a
\* number, another control word, and cf1 without its backslash
TagPieces ==
    { <<"a">>, <<" ">>, <<"7">>,
      <<BS, "c", "f", "1">>, <<BS, "c", "f", "2">>, <<BS, "c", "f", "1", "2">>,
      <<BS, "c", "f", "0">>, <<BS, "c", "f", "U+0662">>,
      <<BS, "c", "f", "1", "2", "3", "4", "5", "6", "7", "8", "9", "0", "1">>,
      <<BS, "c", "f">>, <<BS, "b">>, <<"c", "f", "1">> }

RECURSIVE TagTextsOfLen(_)
TagTextsOfLen(n) ==
    IF n = 0 THEN {<<>>}
    ELSE {t \o piece : t \in TagTextsOfLen(n - 1), piece \in TagPieces}

\* Colour tables: slots 1 and 2, and a dict that also has a key 12
TagDicts ==
    { <<RGB_A, RGB_B>>,
      (1 :> RGB_A) @@ (2 :> RGB_B) @@ (12 :> RGB_BLACK) }

\* Texts with a colour tag 1 written in n digits: alone, after a character,
\* and followed by a second tag
LongTagTexts(n) ==
    { <<BS, "c", "f">> \o Padded(n, "1"),
      <<"a", BS, "c", "f">> \o Padded(n, "1") \o <<" ", "b">>,
      <<BS, "c", "f">> \o Padded(n, "1") \o <<" ", "a", BS, "c", "f", "2">> }

InitTags ==
    /\ ScriptIdle
    /\ fn_pc = "input"
    /\ \/ \E n \in 0..MaxPieces :
             fn_in \in [rtf_txt : TagTextsOfLen(n), rtf_color_dict : TagDicts]
       \/ \E n \in {int_max_str_digits, int_max_str_digits + 1} :
             fn_in \in [rtf_txt : LongTagTexts(n), rtf_color_dict : TagDicts]
    /\ fn_out = "none"

ApplyNextRtfColorTagIdx ==
    /\ fn_pc = "input"
    /\ fn_out' = _next_rtf_color_tag_idx(fn_in.rtf_txt)
    /\ fn_pc' = "found"
    /\ UNCHANGED fn_in
    /\ UNCHANGED <<script_vars, ctor_vars, agg_vars>>

\* The call color_tag_gen(rtf_txt, rtf_color_dict): a generator object that
\* has run nothing yet.  fn_out keeps its local new_end, the dicts it has
\* yielded so far, and the exception that ended it.
ApplyColorTagGen ==
    /\ fn_pc = "input"
    /\ fn_out' = [new_end |-> 0, tags |-> <<>>, err |-> NoError]
    /\ fn_pc' = "suspended"
    /\ UNCHANGED fn_in
    /\ UNCHANGED <<script_vars, ctor_vars, agg_vars>>

\* next() on the suspended generator.  A consumer may stop calling it at
\* any point; the generator then stays suspended.
NextColorTagGen ==
    /\ fn_pc = "suspended"
    /\ LET step == color_tag_gen_next(fn_in.rtf_txt, fn_in.rtf_color_dict, fn_out.new_end)
       IN  /\ fn_out' = [new_end |-> step.new_end,
                         tags    |-> IF step.kind = "yield"
                                     THEN Append(fn_out.tags, step.value)
                                     ELSE fn_out.tags,
                         err     |-> step.err]
           /\ fn_pc' = CASE step.kind = "yield"         -> "suspended"
                          [] step.kind = "StopIteration" -> "exhausted"
                          [] OTHER                       -> "raised"
    /\ UNCHANGED fn_in
    /\ UNCHANGED <<script_vars, ctor_vars, agg_vars>>

NextTags ==
    \/ ApplyNextRtfColorTagIdx
    \/ ApplyColorTagGen
    \/ NextColorTagGen

SpecTags == InitTags /\ [][NextTags]_vars

----------------------------------------------------------------------------
(* Claims about color_tag_gen and _next_rtf_color_tag_idx, under SpecTags *)

\* The text at offset q is \cf, one or more digits, and no further digit
IsMarkerAt(txt, q, len) ==
    /\ StartsAt(txt, q, <<BS, "c", "f">>)
    /\ len >= 4
    /\ q + len <= Len(txt)
    /\ \A p \in (q + 3)..(q + len - 1) : At(txt, p) \in Digits
    /\ (q + len < Len(txt) => At(txt, q + len) \notin Digits)

\* Number of digits that follow the three characters at offset q
MarkerDigits(txt, q) == Run(txt, q + 3, Digits)

\* The text at offset q is a colour tag of some length
HasMarkerAt(txt, q) == IsMarkerAt(txt, q, 3 + MarkerDigits(txt, q))

\* The \cf at offset q of the text is a colour tag that the colour table
\* resolves: it has a number, in no more digits than int() converts, and
\* the number is a key of the table
Resolvable(txt, color_dict, q) ==
    /\ HasMarkerAt(txt, q)
    /\ MarkerDigits(txt, q) <= int_max_str_digits
    /\ has_key(color_dict, int(Slice(txt, q + 3, q + 3 + MarkerDigits(txt, q))))

\* C25: at every point of its consumption, the dicts color_tag_gen has
\* yielded are the first colour tags of the text, one each and in order:
\* tag_start is the offset of the tag in the whole text, the text from
\* tag_start over tag_len characters is the tag, rgb_str is the colour
\* table's entry of the tag's number, and the offsets increase strictly.
\* The generator ends only after the last tag, having yielded every one,
\* and it raises only at a \cf that the colour table does not resolve.
C25_OneRunPerMarker ==
    fn_pc \in {"suspended", "exhausted", "raised"} =>
        LET txt    == fn_in.rtf_txt
            tags   == fn_out.tags
            starts == Ascending(CfStarts(txt))
        IN  /\ Len(tags) <= Len(starts)
            /\ \A k \in 1..Len(tags) :
                  /\ tags[k].tag_start = starts[k]
                  /\ IsMarkerAt(txt, tags[k].tag_start, tags[k].tag_len)
                  /\ tags[k].rgb_str =
                        fn_in.rtf_color_dict[int(Slice(txt, tags[k].tag_start + 3,
                                                tags[k].tag_start + tags[k].tag_len))]
                  /\ (k > 1 => tags[k - 1].tag_start < tags[k].tag_start)
            /\ (fn_pc = "exhausted" => (Len(tags) = Len(starts) /\ fn_out.err = NoError))
            /\ (fn_pc = "suspended" => fn_out.err = NoError)
            /\ (fn_pc = "raised" =>
                  /\ fn_out.err.type = "ValueError"
                  /\ Len(tags) < Len(starts)
                  /\ ~Resolvable(txt, fn_in.rtf_color_dict, starts[Len(tags) + 1]))

\* C25 case: three tags, the second with two digits, all yielded one by one
\* and the generator ended by the next() after the last
C25_Witness ==
    /\ fn_pc = "exhausted"
    /\ fn_out.err = NoError
    /\ Len(fn_out.tags) = 3
    /\ fn_out.tags[2].tag_len = 5
    /\ fn_out.tags[3].tag_start = 9

\* C27 (as claimed): _next_rtf_color_tag_idx returns None exactly when the
\* text holds no \cf; a returned dict describes the first \cf of the text,
\* its offset, the length of \cf and its digits, and the number the digits
\* spell; and the call raises ValueError exactly when the first \cf has no
\* digit after it, whatever follows.
C27_FirstOccurrence ==
    fn_pc = "found" =>
        LET txt    == fn_in.rtf_txt
            starts == CfStarts(txt)
        IN  /\ (fn_out.kind = "None") <=> (starts = {})
            /\ (fn_out.kind = "dict") =>
                  /\ IsMarkerAt(txt, fn_out.tag_start, fn_out.tag_len)
                  /\ \A q \in starts : fn_out.tag_start <= q
                  /\ fn_out.color_num =
                        int(Slice(txt, fn_out.tag_start + 3, fn_out.tag_start + fn_out.tag_len))
            /\ (fn_out.kind = "ValueError") <=>
                  (starts /= {} /\ ~HasMarkerAt(txt, Min(starts)))

\* C27: _next_rtf_color_tag_idx returns None exactly when the text holds no
\* \cf; a returned dict describes the first \cf of the text, its offset, the
\* length of \cf and its digits, and the number the digits spell; and the
\* call raises ValueError exactly when the first \cf has no digit after it
\* or more digits than int() converts, whatever follows.
C27_FirstOccurrenceWithinIntLimit ==
    fn_pc = "found" =>
        LET txt    == fn_in.rtf_txt
            starts == CfStarts(txt)
        IN  /\ (fn_out.kind = "None") <=> (starts = {})
            /\ (fn_out.kind = "dict") =>
                  /\ IsMarkerAt(txt, fn_out.tag_start, fn_out.tag_len)
                  /\ \A q \in starts : fn_out.tag_start <= q
                  /\ fn_out.color_num =
                        int(Slice(txt, fn_out.tag_start + 3, fn_out.tag_start + fn_out.tag_len))
            /\ (fn_out.kind = "ValueError") <=>
                  /\ starts /= {}
                  /\ \/ ~HasMarkerAt(txt, Min(starts))
                     \/ MarkerDigits(txt, Min(starts)) > int_max_str_digits

\* C27 case: the first \cf has no number and a later one has; the call
\* raises ValueError
C27_Witness ==
    /\ fn_pc = "found"
    /\ fn_out.kind = "ValueError"
    /\ \E q \in CfStarts(fn_in.rtf_txt) : Run(fn_in.rtf_txt, q + 3, Digits) >= 1

\* The colour tag at offset q of the document has a number that is no key
\* of the colour table
TagOutsidePalette(q) == TagDigits(q) >= 1 /\ ~TagInPalette(q)

\* C26: once output_txt_script has looked at the tags of a document, a tag
\* whose number is no slot of the colour table has made the call raise, with
\* no Turn collected, printed or stored; and every tag that was resolved has
\* the colour of the slot its own number names.
C26_NumberOutsidePaletteFails ==
    (ctor_pc \in {"output", "returned"} /\ pc \notin {"idle", "call"}) =>
        /\ (\E q \in CfStarts(rtf_content) : TagOutsidePalette(q))
              => (pc = "raised" /\ error.type = "ValueError" /\ NoTurn)
        /\ \A k \in 1..Len(tags_info) :
              /\ NumberAt(rtf_content, tags_info[k].tag_start) \in DOMAIN rtf_color_dict
              /\ tags_info[k].rgb_str
                    = rtf_color_dict[NumberAt(rtf_content, tags_info[k].tag_start)]

\* C26 case: a document whose second tag has number 3 of a table of two
\* colours was refused at that tag
C26_Witness ==
    /\ ctor_pc = "returned"
    /\ pc = "raised"
    /\ error.line = 348
    /\ ctor_error = Printed(144)
    /\ \E q \in CfStarts(rtf_content) : TagOutsidePalette(q) /\ TagNumber(q) = 3 /\ q > 0
    /\ \E q \in CfStarts(rtf_content) : TagInPalette(q)

----------------------------------------------------------------------------
(* output_txt_script called in collect mode and then, with the same        *)
(* arguments, in print mode                                                *)

InitModes ==
    /\ rtf_content \in Docs
    /\ \E c \in Configs : rtf_color_dict = c.dict /\ tagmap = c.tm
    /\ collect_output = TRUE
    /\ pc = "call"
    /\ tags_info = <<>> /\ clean_txt = <<>>
    /\ idx = 0 /\ cur_name = <<>> /\ i = 0 /\ jsonl_objs = <<>> /\ stdout = <<>>
    /\ ret = "none" /\ error = NoError
    /\ fn_pc = "collect" /\ fn_in = <<>> /\ fn_out = "none"
    /\ CtorIdle
    /\ AggIdle

\* lines 152-158: the second call, collect_output=False; the outcome of the
\* first call is kept in fn_out
CallPrintMode ==
    /\ fn_pc = "collect"
    /\ pc \in {"returned", "raised"}
    /\ fn_out' = [pc |-> pc, ret |-> ret, error |-> error, jsonl_objs |-> jsonl_objs]
    /\ fn_pc' = "print"
    /\ collect_output' = FALSE
    /\ pc' = "call"
    /\ tags_info' = <<>> /\ clean_txt' = <<>> /\ idx' = 0 /\ cur_name' = <<>> /\ i' = 0
    /\ ret' = "none" /\ error' = NoError
    /\ UNCHANGED <<rtf_content, rtf_color_dict, tagmap, jsonl_objs, stdout, fn_in>>
    /\ UNCHANGED <<ctor_vars, agg_vars>>

NextModes ==
    \/ Call
    \/ ScanStep
    \/ FinalEmit
    \/ CallPrintMode

SpecModes == InitModes /\ [][NextModes]_vars

\* C28: the call in print mode ends as the call in collect mode ended on the
\* same arguments: both raise, with the same exception, or both return, the
\* one True after printing, in order, the objects the other returned as
\* its list.
C28_PrintModePrintsTheList ==
    (fn_pc = "print" /\ pc \in {"returned", "raised"}) =>
        /\ pc = fn_out.pc
        /\ error = fn_out.error
        /\ pc = "returned" =>
              /\ fn_out.ret = "jsonl_objs"
              /\ ret = "True"
              /\ stdout = fn_out.jsonl_objs
              /\ jsonl_objs = <<>>

\* C28 case: both calls returned, and two or more Turns were printed
C28_Witness ==
    /\ fn_pc = "print"
    /\ pc = "returned"
    /\ ret = "True"
    /\ Len(stdout) >= 2
    /\ fn_out.jsonl_objs = stdout

----------------------------------------------------------------------------
(* Further claims about DiscussionConverter.__init__, under SpecAgg *)

\* Every source document of rtf_dir is one that parses
AllSourcesParse == \A n \in Sources : n \in ParsingSources

\* C29 (as claimed): a run without jsonl_dir, in a temporary directory,
\* ends without error and with the discussion built when every document
\* parses, and the removal of the temporary directory never raises.
C29_TmpDirRunCompletes ==
    (jsonl_dir_is_tmp /\ agg_pc \in {"done", "raised"}) =>
        /\ agg_error.line /= 150
        /\ AllSourcesParse => (agg_pc = "done" /\ agg_error = NoError /\ discussion /= Unset)

----------------------------------------------------------------------------
(* The text of the Turns, under SpecCtor *)

\* The text between protected tag j and protected tag j + 1 of the cleaned
\* text (from the start for j = 0, to the end for j = NumTags); protected
\* tag j has the length of the j-th colour tag of the document
TextAfterTag(j) ==
    Slice(clean_txt,
          IF j = 0 THEN 0 ELSE CleanTags[j].start + tags_info[j].tag_len,
          SpanHi(j))

\* A text, and the text without its one leading space
WithOrWithoutSpace(txt) ==
    {txt} \cup (IF Len(txt) > 0 /\ txt[1] = " " THEN {Tail(txt)} ELSE {})

\* The texts between the tags from tag j on, joined, each with or without
\* its leading space
RECURSIVE JoinedTextsFrom(_)
JoinedTextsFrom(j) ==
    IF j > NumTags THEN {<<>>}
    ELSE {h \o t : h \in WithOrWithoutSpace(TextAfterTag(j)), t \in JoinedTextsFrom(j + 1)}

\* The texts of the first n Turns written, joined
RECURSIVE EmittedText(_)
EmittedText(n) == IF n = 0 THEN <<>> ELSE EmittedText(n - 1) \o Emitted[n].txt

\* The cursor of the scan does not move backwards
CursorForward == (pc = "scan") => (idx' >= idx)

\* C30 (as claimed): after a call that returned, with as many protected tags
\* in the cleaned text as the document has colour tags, the texts of the
\* Turns joined in order are the cleaned text without its protected tags
\* and without at most one leading space per span; and the cursor only
\* moves forward.
C30_TextPreserved ==
    /\ []((pc = "returned" /\ NumTags = Len(tags_info))
             => EmittedText(Len(Emitted)) \in JoinedTextsFrom(0))
    /\ [][CursorForward]_vars

====
